---- MODULE Spec2Model ----
(***************************************************************************)
(* The authentication, session and authorization core of mec-one: the      *)
(* token service, the session registry, the audit recorder, the            *)
(* authentication and authorization gates, and the login / refresh /       *)
(* logout / forgot-password / user-administration routes.                  *)
(*                                                                         *)
(* Every request is an asynchronous task.  A step of a request is one      *)
(* storage operation (or the bcrypt comparison) together with the          *)
(* synchronous code that runs when it resolves, up to the next await.  The *)
(* arrival step runs the synchronous code before the first await.  Steps   *)
(* of different requests, and the clock, interleave freely.                *)
(*                                                                         *)
(* Time is in seconds, the resolution of the tokens' iat / exp claims.     *)
(***************************************************************************)
EXTENDS Naturals, Sequences, FiniteSets, TLC

-----------------------------------------------------------------------------
(* Bounds of the model.                                                    *)

MaxRequests == 3
MaxTicks == 2
MaxRaceRequests == 3
MaxRaceTicks == 2
MaxRevokeRequests == 5
MaxRevokeTicks == 1
MaxAdminRequests == 4
MaxAuditRequests == 3
MaxAuditTicks == 1
MaxUsersRequests == 4
MaxEmailRequests == 3
MaxFaultRequests == 3
MaxStoreRequests == 4
MaxSeedRequests == 4
MaxSessionRequests == 4
MaxRoleRequests == 4
MaxRoleTicks == 1

-----------------------------------------------------------------------------
(* Program constants.                                                      *)

JWT_SECRET == "your-secret-key-change-in-production"
JWT_REFRESH_SECRET == "your-refresh-secret-key-change-in-production"

AccessTTL == 900
RefreshTTL == 604800
SessionTTL == 604800

userProfiles ==
  {"ADMINISTRATOR", "MANAGER", "COORDINATOR", "NEGOTIATOR", "LAWYER", "CONTROLLER"}

AdminEmail == "admin@mecone.com"
AdminPassword == "admin123"

(* The two request tasks that may be in flight together.                    *)
Slots == {"a", "b"}

(* How far the clock may jump in one step: a second, and one second less   *)
(* than the life of an access token and of a refresh token, so that two    *)
(* jumps reach the last second of a token's life and the first after it.   *)
TickSteps == {1, AccessTTL - 1, RefreshTTL - 1}

-----------------------------------------------------------------------------
(* Values.                                                                 *)

NoToken == [key |-> "none", userId |-> 0, email |-> "", profile |-> "", iat |-> 0, exp |-> 0]
Garbage == [key |-> "garbage", userId |-> 0, email |-> "", profile |-> "", iat |-> 0, exp |-> 0]
NoHeader == [key |-> "noheader", userId |-> 0, email |-> "", profile |-> "", iat |-> 0, exp |-> 0]
NoBearer == [key |-> "nobearer", userId |-> 0, email |-> "", profile |-> "", iat |-> 0, exp |-> 0]

NoTokens == [accessToken |-> NoToken, refreshToken |-> NoToken]

NoIdentity == [id |-> 0, email |-> "", profile |-> ""]

NoHash == [alg |-> "none", of |-> ""]

NoUser ==
  [id |-> 0, email |-> "", password |-> NoHash, profile |-> "", isActive |-> FALSE,
   temporaryPassword |-> FALSE, mustChangePassword |-> FALSE, lastLogin |-> 0]

(* An update's body: the fields it carries ("" and "keep": not carried).    *)
NoPatch ==
  [email |-> "", profile |-> "", isActive |-> "keep", password |-> "",
   temporaryPassword |-> "keep", mustChangePassword |-> "keep"]

Hidden == [alg |-> "hidden", of |-> "[HIDDEN]"]

-----------------------------------------------------------------------------
(* Password codec.                                                         *)

hashPassword(password) == [alg |-> "bcrypt", of |-> password]

comparePassword(password, hash) == hash.alg = "bcrypt" /\ hash.of = password

-----------------------------------------------------------------------------
(* Token service.  A token is the signed claims: who signed it (the secret *)
(* used), the payload, and the iat / exp the library adds.  Signing is     *)
(* deterministic: the same payload signed with the same secret in the same *)
(* second is the same string.                                              *)

sign(payload, secret, expiresIn, clock) ==
  [key |-> secret, userId |-> payload.userId, email |-> payload.email,
   profile |-> payload.profile, iat |-> clock, exp |-> clock + expiresIn]

(* Faulty variant: the signature is checked and the exp claim is not.      *)
verify_IgnoresExpiry(token, secret, clock) == token.key = secret

verify(token, secret, clock) == token.key = secret /\ clock < token.exp

generateTokens(payload, clock) ==
  [accessToken |-> sign(payload, JWT_SECRET, AccessTTL, clock),
   refreshToken |-> sign(payload, JWT_REFRESH_SECRET, RefreshTTL, clock)]

(* Faulty variant: a token signed with either secret verifies as an access *)
(* token.                                                                  *)
verifyToken_EitherSecret(token, clock) ==
  verify(token, JWT_SECRET, clock) \/ verify(token, JWT_REFRESH_SECRET, clock)

verifyToken(token, clock) == verify(token, JWT_SECRET, clock)

verifyRefreshToken(token, clock) == verify(token, JWT_REFRESH_SECRET, clock)

TokenPayload(user) == [userId |-> user.id, email |-> user.email, profile |-> user.profile]

-----------------------------------------------------------------------------
VARIABLES
  users,      \* the users table, in insertion order; a user's id is its index
  sessions,   \* the user_sessions table, in insertion order
  audit,      \* the audit_logs table, in insertion order
  now,        \* the clock, in seconds
  ticks,      \* how often the clock may still jump
  budget,     \* how many requests may still arrive
  req,        \* the request task of each slot
  held,       \* the tokens clients have received in responses
  loggedOut,  \* history: the refresh tokens a completed logout carried in its body
  activations \* history: how often an update has made an inactive user active

vars == <<users, sessions, audit, now, ticks, budget, req, held, loggedOut, activations>>

store == <<users, sessions, audit>>

-----------------------------------------------------------------------------
(* Storage.                                                                *)

getUser(id) == IF id \in DOMAIN users THEN users[id] ELSE NoUser

getUserByEmail(email) ==
  IF \E i \in DOMAIN users : users[i].email = email
  THEN users[CHOOSE i \in DOMAIN users :
               /\ users[i].email = email
               /\ \A j \in DOMAIN users : users[j].email = email => i <= j]
  ELSE NoUser

(* What an update sets: the fields the body carries.                        *)
ApplyPatch(user, patch) ==
  [user EXCEPT
     !.email = IF patch.email = "" THEN @ ELSE patch.email,
     !.profile = IF patch.profile = "" THEN @ ELSE patch.profile,
     !.isActive = IF patch.isActive = "keep" THEN @ ELSE patch.isActive = "true",
     !.password = IF patch.password = "" THEN @
                  ELSE [alg |-> "plain", of |-> patch.password],
     !.temporaryPassword = IF patch.temporaryPassword = "keep" THEN @
                           ELSE patch.temporaryPassword = "true",
     !.mustChangePassword = IF patch.mustChangePassword = "keep" THEN @
                            ELSE patch.mustChangePassword = "true"]

(* The update fails on the unique index of users.email.                     *)
updateUserFails(id, patch) ==
  /\ patch.email # ""
  /\ \E i \in DOMAIN users : i # id /\ users[i].email = patch.email

(* Faulty variant: the users table has no unique index on email.          *)
createUserFails_NoIndex(email) == FALSE

(* The insert fails on the unique index of users.email.                     *)
createUserFails(email) == \E i \in DOMAIN users : users[i].email = email

(* What POST /api/users inserts: the validated body, the hashed temporary   *)
(* password and the two flags; the id is the row's position.                *)
createUser(patch, hash) ==
  Append(users,
         [id |-> Len(users) + 1, email |-> patch.email, password |-> hash,
          profile |-> patch.profile, isActive |-> patch.isActive # "false",
          temporaryPassword |-> TRUE, mustChangePassword |-> TRUE, lastLogin |-> 0])

updateUser(id, patch) ==
  [i \in DOMAIN users |-> IF i = id THEN ApplyPatch(users[i], patch) ELSE users[i]]

resetPassword(id, hash) ==
  [i \in DOMAIN users |->
     IF i = id
     THEN [users[i] EXCEPT !.password = hash, !.temporaryPassword = TRUE,
                           !.mustChangePassword = TRUE]
     ELSE users[i]]

updateUserLastLogin(id, lastLogin) ==
  [i \in DOMAIN users |->
     IF i = id THEN [users[i] EXCEPT !.lastLogin = lastLogin] ELSE users[i]]

(* Faulty variant: the user row is deleted.                                *)
deactivateUser_Removes(id) ==
  SubSeq(users, 1, id - 1) \o SubSeq(users, id + 1, Len(users))

deactivateUser(id) ==
  [i \in DOMAIN users |-> IF i = id THEN [users[i] EXCEPT !.isActive = FALSE] ELSE users[i]]

(* The insert fails on the unique index of user_sessions.token.             *)
createSessionFails(token) == \E i \in DOMAIN sessions : sessions[i].token = token

createSession(userId, token, expiresAt) ==
  Append(sessions, [userId |-> userId, token |-> token, isActive |-> TRUE,
                    expiresAt |-> expiresAt])

(* Faulty variant: the lookup forgets the is_active filter.                *)
getActiveSession_AnyRow(token) ==
  \E i \in DOMAIN sessions : sessions[i].token = token

getActiveSession(token) ==
  \E i \in DOMAIN sessions : sessions[i].token = token /\ sessions[i].isActive

(* Faulty variant: the update flips the flag of the token's rows.          *)
deactivateSession_Flips(token) ==
  [i \in DOMAIN sessions |->
     IF sessions[i].token = token
     THEN [sessions[i] EXCEPT !.isActive = ~sessions[i].isActive]
     ELSE sessions[i]]

deactivateSession(token) ==
  [i \in DOMAIN sessions |->
     IF sessions[i].token = token THEN [sessions[i] EXCEPT !.isActive = FALSE]
     ELSE sessions[i]]

createAuditLog(userId, action, recordId, oldValues, newValues) ==
  Append(audit, [userId |-> userId, action |-> action, table |-> "users",
                 recordId |-> recordId, oldValues |-> oldValues, newValues |-> newValues])

(* Faulty variant: the snapshot is stored as read.                         *)
Redact_Keeps(user) == user

Redact(user) == [user EXCEPT !.password = Hidden]

-----------------------------------------------------------------------------
(* Request tasks.  The fields up to `allow` are the request and its route; *)
(* `at` is the clock reading when the handler verified (login: signed) the *)
(* token; `identity` is req.user; `user`, `updated`, `tokens` and          *)
(* `expiresAt` are the handler's locals; `status`, `message` and `body`    *)
(* are the response.  Three fields record what held when the request       *)
(* arrived: `afterLogout` (a logout carrying its refresh token had         *)
(* completed), `inactive` (the user its credentials name was inactive) and *)
(* `epoch` (the value of activations).                                     *)

Idle ==
  [kind |-> "idle", pc |-> "idle",
   email |-> "", password |-> "", bearer |-> NoHeader, refreshToken |-> NoToken,
   target |-> 0, patch |-> NoPatch, gated |-> FALSE, allow |-> {},
   at |-> 0, afterLogout |-> FALSE, inactive |-> FALSE, epoch |-> 0,
   identity |-> NoIdentity, user |-> NoUser, updated |-> NoUser, tokens |-> NoTokens,
   expiresAt |-> 0, fault |-> "",
   status |-> 0, message |-> "", body |-> NoTokens]

Free(r) == req[r].pc \in {"idle", "done"}

(* A task as it arrives, with what holds of the user its credentials name. *)
Arrived(kind, user) ==
  [Idle EXCEPT !.kind = kind, !.at = now, !.epoch = activations,
               !.inactive = user.id # 0 /\ ~user.isActive]

(* A request arrives in the first free slot.                               *)
Arrives(r) ==
  /\ budget > 0
  /\ Free(r)
  /\ \A q \in Slots : Free(q) => ~(q = "a" /\ r = "b")
  /\ budget' = budget - 1

Respond(task, status, message) ==
  [task EXCEPT !.pc = "done", !.status = status, !.message = message,
               !.user = NoUser, !.updated = NoUser, !.tokens = NoTokens,
               !.expiresAt = 0]

RespondTokens(task, tokens) ==
  [Respond(task, 200, "") EXCEPT !.body = tokens]

-----------------------------------------------------------------------------
(* seedAdminUser on a fresh store.                                         *)

SeededAdmin ==
  [id |-> 1, email |-> AdminEmail, password |-> hashPassword(AdminPassword),
   profile |-> "ADMINISTRATOR", isActive |-> TRUE, temporaryPassword |-> FALSE,
   mustChangePassword |-> TRUE, lastLogin |-> 0]

FreshStore ==
  /\ users = <<SeededAdmin>>
  /\ sessions = <<>>
  /\ audit = <<>>
  /\ now = 1
  /\ held = {}
  /\ loggedOut = {}
  /\ activations = 0

Fresh == FreshStore /\ req = [r \in Slots |-> Idle]

Tick(d) ==
  /\ ticks > 0
  /\ now' = now + d
  /\ ticks' = ticks - 1
  /\ UNCHANGED <<users, sessions, audit, budget, req, held, loggedOut, activations>>

-----------------------------------------------------------------------------
(* seedAdminUser, run by registerRoutes at every start of a server         *)
(* process, on whatever the store holds.                                   *)

SeedArrives(r) ==
  /\ Arrives(r)
  /\ req' = [req EXCEPT ![r] = [Arrived("seed", NoUser) EXCEPT !.pc = "seed_user"]]
  /\ UNCHANGED <<users, sessions, audit, now, ticks, held, loggedOut, activations>>

(* Faulty variant: a found administrator is reset to the seeded values.    *)
SeedUser_Resets(r) ==
  /\ req[r].pc = "seed_user"
  /\ LET existingAdmin == getUserByEmail(AdminEmail)
     IN /\ req' = [req EXCEPT ![r] =
                     IF existingAdmin.id # 0 THEN Respond(req[r], 0, "exists")
                     ELSE [req[r] EXCEPT !.pc = "seed_write"]]
        /\ users' = [i \in DOMAIN users |->
                       IF i = existingAdmin.id THEN [SeededAdmin EXCEPT !.id = i]
                       ELSE users[i]]
  /\ UNCHANGED <<sessions, audit, now, ticks, budget, held, loggedOut, activations>>

(* getUserByEmail resolves: a found administrator ends the seeding.        *)
SeedUser(r) ==
  /\ req[r].pc = "seed_user"
  /\ req' = [req EXCEPT ![r] =
               IF getUserByEmail(AdminEmail).id # 0 THEN Respond(req[r], 0, "exists")
               ELSE [req[r] EXCEPT !.pc = "seed_write"]]
  /\ UNCHANGED <<users, sessions, audit, now, ticks, budget, held, loggedOut, activations>>

(* hashPassword and createUser resolve; a rejected insert is caught and    *)
(* logged.  The columns the seed leaves out take the schema's defaults.    *)
SeedWrite(r) ==
  /\ req[r].pc = "seed_write"
  /\ IF createUserFails(AdminEmail)
     THEN /\ req' = [req EXCEPT ![r] = Respond(req[r], 0, "error")]
          /\ UNCHANGED users
     ELSE /\ users' = Append(users, [SeededAdmin EXCEPT !.id = Len(users) + 1])
          /\ req' = [req EXCEPT ![r] = Respond(req[r], 0, "created")]
  /\ UNCHANGED <<sessions, audit, now, ticks, budget, held, loggedOut, activations>>

-----------------------------------------------------------------------------
(* POST /api/auth/login                                                    *)

LoginArrives(r, email, password) ==
  /\ Arrives(r)
  /\ LET task == [Arrived("login", getUserByEmail(email))
                    EXCEPT !.email = email, !.password = password]
     IN req' = [req EXCEPT ![r] =
                  IF email = "" \/ password = ""
                  THEN Respond(task, 400, "Email and password are required")
                  ELSE [task EXCEPT !.pc = "login_user"]]
  /\ UNCHANGED <<users, sessions, audit, now, ticks, held, loggedOut, activations>>

(* Faulty variant: a deactivated account is told apart from an unknown     *)
(* one.                                                                    *)
LoginUser_TellsInactive(r) ==
  /\ req[r].pc = "login_user"
  /\ LET user == getUserByEmail(req[r].email)
     IN req' = [req EXCEPT ![r] =
                  IF user.id = 0
                  THEN Respond(req[r], 401, "Invalid credentials")
                  ELSE IF ~user.isActive
                  THEN Respond(req[r], 403, "Account deactivated")
                  ELSE [req[r] EXCEPT !.pc = "login_compare", !.user = user]]
  /\ UNCHANGED <<users, sessions, audit, now, ticks, budget, held, loggedOut, activations>>

(* getUserByEmail resolves.                                                *)
LoginUser(r) ==
  /\ req[r].pc = "login_user"
  /\ LET user == getUserByEmail(req[r].email)
     IN req' = [req EXCEPT ![r] =
                  IF user.id = 0 \/ ~user.isActive
                  THEN Respond(req[r], 401, "Invalid credentials")
                  ELSE [req[r] EXCEPT !.pc = "login_compare", !.user = user]]
  /\ UNCHANGED <<users, sessions, audit, now, ticks, budget, held, loggedOut, activations>>

(* comparePassword resolves; the tokens are signed and the last-login      *)
(* update is issued.                                                       *)
(* Faulty variant: the last login is recorded before the password is       *)
(* compared.                                                               *)
LoginCompare_TouchesFirst(r) ==
  /\ req[r].pc = "login_compare"
  /\ users' = updateUserLastLogin(req[r].user.id, now)
  /\ req' = [req EXCEPT ![r] =
               IF ~comparePassword(req[r].password, req[r].user.password)
               THEN Respond(req[r], 401, "Invalid credentials")
               ELSE [req[r] EXCEPT !.pc = "login_touch", !.at = now,
                       !.tokens = generateTokens(TokenPayload(req[r].user), now)]]
  /\ UNCHANGED <<sessions, audit, now, ticks, budget, held, loggedOut, activations>>

LoginCompare(r) ==
  /\ req[r].pc = "login_compare"
  /\ req' = [req EXCEPT ![r] =
               IF ~comparePassword(req[r].password, req[r].user.password)
               THEN Respond(req[r], 401, "Invalid credentials")
               ELSE [req[r] EXCEPT !.pc = "login_touch", !.at = now,
                       !.tokens = generateTokens(TokenPayload(req[r].user), now)]]
  /\ UNCHANGED <<users, sessions, audit, now, ticks, budget, held, loggedOut, activations>>

(* updateUserLastLogin resolves; the session's expiry is computed.         *)
LoginTouch(r) ==
  /\ req[r].pc = "login_touch"
  /\ users' = updateUserLastLogin(req[r].user.id, req[r].at)
  /\ req' = [req EXCEPT ![r] = [req[r] EXCEPT !.pc = "login_session",
                                               !.expiresAt = now + SessionTTL]]
  /\ UNCHANGED <<sessions, audit, now, ticks, budget, held, loggedOut, activations>>

(* Faulty variant: a rejected createSession is ignored and the login       *)
(* carries on.                                                             *)
LoginSession_Continues(r) ==
  /\ req[r].pc = "login_session"
  /\ sessions' = IF createSessionFails(req[r].tokens.refreshToken) THEN sessions
                 ELSE createSession(req[r].user.id, req[r].tokens.refreshToken,
                                    req[r].expiresAt)
  /\ req' = [req EXCEPT ![r] = [req[r] EXCEPT !.pc = "login_audit"]]
  /\ UNCHANGED <<users, audit, now, ticks, budget, held, loggedOut, activations>>

(* createSession resolves, or rejects and the catch block answers 500.     *)
LoginSession(r) ==
  /\ req[r].pc = "login_session"
  /\ IF createSessionFails(req[r].tokens.refreshToken)
     THEN /\ req' = [req EXCEPT ![r] = Respond(req[r], 500, "Internal server error")]
          /\ UNCHANGED sessions
     ELSE /\ sessions' = createSession(req[r].user.id, req[r].tokens.refreshToken,
                                       req[r].expiresAt)
          /\ req' = [req EXCEPT ![r] = [req[r] EXCEPT !.pc = "login_audit"]]
  /\ UNCHANGED <<users, audit, now, ticks, budget, held, loggedOut, activations>>

(* createAuditLog resolves and the response is sent.                       *)
LoginAudit(r) ==
  /\ req[r].pc = "login_audit"
  /\ audit' = createAuditLog(req[r].user.id, "LOGIN", req[r].user.id, NoUser, NoUser)
  /\ req' = [req EXCEPT ![r] = RespondTokens(req[r], req[r].tokens)]
  /\ held' = held \cup {req[r].tokens.accessToken, req[r].tokens.refreshToken}
  /\ UNCHANGED <<users, sessions, now, ticks, budget, loggedOut, activations>>

-----------------------------------------------------------------------------
(* POST /api/auth/refresh                                                  *)

RefreshArrives(r, refreshToken) ==
  /\ Arrives(r)
  /\ LET task == [Arrived("refresh", getUser(refreshToken.userId))
                    EXCEPT !.refreshToken = refreshToken,
                           !.afterLogout = refreshToken \in loggedOut]
     IN req' = [req EXCEPT ![r] =
                  IF refreshToken = NoToken
                  THEN Respond(task, 400, "Refresh token is required")
                  ELSE IF ~verifyRefreshToken(refreshToken, now)
                  THEN Respond(task, 401, "Invalid refresh token")
                  ELSE [task EXCEPT !.pc = "refresh_session"]]
  /\ UNCHANGED <<users, sessions, audit, now, ticks, held, loggedOut, activations>>

(* Faulty variant: a failed refresh revokes the token's session.           *)
RefreshSession_Rotates(r) ==
  /\ req[r].pc = "refresh_session"
  /\ req' = [req EXCEPT ![r] =
               IF ~getActiveSession(req[r].refreshToken)
               THEN Respond(req[r], 401, "Session not found or expired")
               ELSE [req[r] EXCEPT !.pc = "refresh_user"]]
  /\ sessions' = deactivateSession(req[r].refreshToken)
  /\ UNCHANGED <<users, audit, now, ticks, budget, held, loggedOut, activations>>

(* getActiveSession resolves.                                              *)
RefreshSession(r) ==
  /\ req[r].pc = "refresh_session"
  /\ req' = [req EXCEPT ![r] =
               IF ~getActiveSession(req[r].refreshToken)
               THEN Respond(req[r], 401, "Session not found or expired")
               ELSE [req[r] EXCEPT !.pc = "refresh_user"]]
  /\ UNCHANGED <<users, sessions, audit, now, ticks, budget, held, loggedOut, activations>>

(* Faulty variant: the refresh handler signs a pair for a deactivated      *)
(* user.                                                                   *)
RefreshUser_IgnoresActive(r) ==
  /\ req[r].pc = "refresh_user"
  /\ LET user == getUser(req[r].refreshToken.userId)
         tokens == generateTokens(TokenPayload(user), now)
     IN IF user.id = 0
        THEN /\ req' = [req EXCEPT ![r] =
                          Respond(req[r], 401, "User not found or inactive")]
             /\ UNCHANGED held
        ELSE /\ req' = [req EXCEPT ![r] = RespondTokens(req[r], tokens)]
             /\ held' = held \cup {tokens.accessToken, tokens.refreshToken}
  /\ UNCHANGED <<users, sessions, audit, now, ticks, budget, loggedOut, activations>>

(* getUser resolves; the new pair is signed and returned.                  *)
RefreshUser(r) ==
  /\ req[r].pc = "refresh_user"
  /\ LET user == getUser(req[r].refreshToken.userId)
         tokens == generateTokens(TokenPayload(user), now)
     IN IF user.id = 0 \/ ~user.isActive
        THEN /\ req' = [req EXCEPT ![r] =
                          Respond(req[r], 401, "User not found or inactive")]
             /\ UNCHANGED held
        ELSE /\ req' = [req EXCEPT ![r] = RespondTokens(req[r], tokens)]
             /\ held' = held \cup {tokens.accessToken, tokens.refreshToken}
  /\ UNCHANGED <<users, sessions, audit, now, ticks, budget, loggedOut, activations>>

-----------------------------------------------------------------------------
(* The authentication gate and the authorization gate.                     *)

(* The roles a route's authorize() is configured with.                     *)
RouteGated(kind) == kind \in {"users", "create", "update", "delete"}

RouteAllow(kind) ==
  IF kind \in {"users", "create", "update"} THEN {"ADMINISTRATOR", "MANAGER"}
  ELSE IF kind = "delete" THEN {"ADMINISTRATOR"}
  ELSE {}

(* Where a route's handler starts: its code up to the first await.         *)
HandlerEntry(task) ==
  IF task.kind = "logout"
  THEN (IF task.refreshToken # NoToken THEN "logout_revoke" ELSE "logout_audit")
  ELSE IF task.kind = "me" THEN "me_read"
  ELSE IF task.kind = "users" THEN "users_read"
  ELSE IF task.kind = "delete" THEN "delete_user"
  ELSE IF task.kind = "create" THEN "create_email"
  ELSE "update_user"

(* authenticate, up to the getUser await.                                  *)
authenticate(task, clock) ==
  IF task.bearer = NoHeader
  THEN Respond(task, 401, "No authorization header provided")
  ELSE IF task.bearer = NoBearer
  THEN Respond(task, 401, "No token provided")
  ELSE IF ~verifyToken(task.bearer, clock)
  THEN Respond(task, 401, "Invalid or expired token")
  ELSE [task EXCEPT !.pc = "auth_user"]

(* Faulty variant: any attached identity is let through, whatever its      *)
(* role.                                                                   *)
authorize_AnyRole(profiles, identity) ==
  IF identity = NoIdentity THEN 401 ELSE 200

(* authorize(profiles): the middleware's answer for req.user.              *)
authorize(profiles, identity) ==
  IF identity = NoIdentity THEN 401
  ELSE IF identity.profile \notin profiles THEN 403
  ELSE 200

AuthedArrives(r, kind, bearer, refreshToken, target, patch) ==
  /\ Arrives(r)
  /\ LET task == [Arrived(kind, getUser(bearer.userId))
                    EXCEPT !.bearer = bearer, !.refreshToken = refreshToken,
                           !.afterLogout = refreshToken \in loggedOut,
                           !.target = target, !.patch = patch,
                           !.gated = RouteGated(kind), !.allow = RouteAllow(kind)]
     IN req' = [req EXCEPT ![r] = authenticate(task, now)]
  /\ UNCHANGED <<users, sessions, audit, now, ticks, held, loggedOut, activations>>

(* Faulty variant: the gate attaches the email and role of the user record *)
(* it has just read.                                                       *)
AuthUser_StoredRole(r) ==
  /\ req[r].pc = "auth_user"
  /\ LET user == getUser(req[r].bearer.userId)
     IN req' = [req EXCEPT ![r] =
                  IF user.id = 0 \/ ~user.isActive
                  THEN Respond(req[r], 401, "User not found or inactive")
                  ELSE [req[r] EXCEPT !.pc = "auth_audit",
                          !.identity = [id |-> user.id, email |-> user.email,
                                        profile |-> user.profile]]]
  /\ UNCHANGED <<users, sessions, audit, now, ticks, budget, held, loggedOut, activations>>

(* Faulty variant: the gate attaches the identity of a deactivated user.   *)
AuthUser_IgnoresActive(r) ==
  /\ req[r].pc = "auth_user"
  /\ LET user == getUser(req[r].bearer.userId)
     IN req' = [req EXCEPT ![r] =
                  IF user.id = 0
                  THEN Respond(req[r], 401, "User not found or inactive")
                  ELSE [req[r] EXCEPT !.pc = "auth_audit",
                          !.identity = [id |-> req[r].bearer.userId,
                                        email |-> req[r].bearer.email,
                                        profile |-> req[r].bearer.profile]]]
  /\ UNCHANGED <<users, sessions, audit, now, ticks, budget, held, loggedOut, activations>>

(* getUser resolves; req.user is set and the API_ACCESS row is issued.     *)
AuthUser(r) ==
  /\ req[r].pc = "auth_user"
  /\ LET user == getUser(req[r].bearer.userId)
     IN req' = [req EXCEPT ![r] =
                  IF user.id = 0 \/ ~user.isActive
                  THEN Respond(req[r], 401, "User not found or inactive")
                  ELSE [req[r] EXCEPT !.pc = "auth_audit",
                          !.identity = [id |-> req[r].bearer.userId,
                                        email |-> req[r].bearer.email,
                                        profile |-> req[r].bearer.profile]]]
  /\ UNCHANGED <<users, sessions, audit, now, ticks, budget, held, loggedOut, activations>>

(* Faulty variant: next() runs without the API_ACCESS row.                 *)
AuthAudit_Skips(r) ==
  /\ req[r].pc = "auth_audit"
  /\ req' = [req EXCEPT ![r] =
               [req[r] EXCEPT !.pc = IF req[r].gated THEN "authorize"
                                     ELSE HandlerEntry(req[r])]]
  /\ UNCHANGED <<users, sessions, audit, now, ticks, budget, held, loggedOut, activations>>

(* createAuditLog resolves; next() runs the route's next middleware.       *)
AuthAudit(r) ==
  /\ req[r].pc = "auth_audit"
  /\ audit' = createAuditLog(req[r].bearer.userId, "API_ACCESS", req[r].bearer.userId,
                             NoUser, NoUser)
  /\ req' = [req EXCEPT ![r] =
               [req[r] EXCEPT !.pc = IF req[r].gated THEN "authorize"
                                     ELSE HandlerEntry(req[r])]]
  /\ UNCHANGED <<users, sessions, now, ticks, budget, held, loggedOut, activations>>

(* The middleware authorize(profiles) returns.                             *)
Authorize(r) ==
  /\ req[r].pc = "authorize"
  /\ LET answer == authorize(req[r].allow, req[r].identity)
     IN req' = [req EXCEPT ![r] =
                  IF answer = 401 THEN Respond(req[r], 401, "Not authenticated")
                  ELSE IF answer = 403 THEN Respond(req[r], 403, "Insufficient permissions")
                  ELSE [req[r] EXCEPT !.pc = HandlerEntry(req[r])]]
  /\ UNCHANGED <<users, sessions, audit, now, ticks, budget, held, loggedOut, activations>>

-----------------------------------------------------------------------------
(* POST /api/auth/logout                                                   *)

(* Faulty variant: the logout deactivates every session of the user who    *)
(* owns the supplied token.                                                *)
LogoutRevoke_EverySession(r) ==
  /\ req[r].pc = "logout_revoke"
  /\ sessions' = [i \in DOMAIN sessions |->
                    IF sessions[i].userId = req[r].refreshToken.userId
                    THEN [sessions[i] EXCEPT !.isActive = FALSE] ELSE sessions[i]]
  /\ req' = [req EXCEPT ![r] = [req[r] EXCEPT !.pc = "logout_audit"]]
  /\ UNCHANGED <<users, audit, now, ticks, budget, held, loggedOut, activations>>

(* deactivateSession resolves.                                             *)
LogoutRevoke(r) ==
  /\ req[r].pc = "logout_revoke"
  /\ sessions' = deactivateSession(req[r].refreshToken)
  /\ req' = [req EXCEPT ![r] = [req[r] EXCEPT !.pc = "logout_audit"]]
  /\ UNCHANGED <<users, audit, now, ticks, budget, held, loggedOut, activations>>

(* Faulty variant: the logout is answered without its audit row.           *)
LogoutAudit_Silent(r) ==
  /\ req[r].pc = "logout_audit"
  /\ req' = [req EXCEPT ![r] = Respond(req[r], 200, "Logged out successfully")]
  /\ loggedOut' = IF req[r].refreshToken # NoToken
                  THEN loggedOut \cup {req[r].refreshToken} ELSE loggedOut
  /\ UNCHANGED <<users, sessions, audit, now, ticks, budget, held, activations>>

(* createAuditLog resolves and the response is sent.                       *)
LogoutAudit(r) ==
  /\ req[r].pc = "logout_audit"
  /\ audit' = createAuditLog(req[r].identity.id, "LOGOUT", req[r].identity.id,
                             NoUser, NoUser)
  /\ req' = [req EXCEPT ![r] = Respond(req[r], 200, "Logged out successfully")]
  /\ loggedOut' = IF req[r].refreshToken # NoToken
                  THEN loggedOut \cup {req[r].refreshToken} ELSE loggedOut
  /\ UNCHANGED <<users, sessions, now, ticks, budget, held, activations>>

-----------------------------------------------------------------------------
(* GET /api/auth/me and GET /api/users                                     *)

MeRead(r) ==
  /\ req[r].pc = "me_read"
  /\ req' = [req EXCEPT ![r] =
               IF getUser(req[r].identity.id).id = 0
               THEN Respond(req[r], 404, "User not found")
               ELSE Respond(req[r], 200, "")]
  /\ UNCHANGED <<users, sessions, audit, now, ticks, budget, held, loggedOut, activations>>

UsersRead(r) ==
  /\ req[r].pc = "users_read"
  /\ req' = [req EXCEPT ![r] = Respond(req[r], 200, "")]
  /\ UNCHANGED <<users, sessions, audit, now, ticks, budget, held, loggedOut, activations>>

-----------------------------------------------------------------------------
(* DELETE /api/users/:id                                                   *)

DeleteUser(r) ==
  /\ req[r].pc = "delete_user"
  /\ LET user == getUser(req[r].target)
     IN req' = [req EXCEPT ![r] =
                  IF user.id = 0 THEN Respond(req[r], 404, "User not found")
                  ELSE [req[r] EXCEPT !.pc = "delete_write", !.user = user]]
  /\ UNCHANGED <<users, sessions, audit, now, ticks, budget, held, loggedOut, activations>>

(* Faulty variant: deactivating a user also deactivates the user's         *)
(* sessions.                                                               *)
DeleteWrite_RevokesSessions(r) ==
  /\ req[r].pc = "delete_write"
  /\ users' = deactivateUser(req[r].target)
  /\ sessions' = [i \in DOMAIN sessions |->
                    IF sessions[i].userId = req[r].target
                    THEN [sessions[i] EXCEPT !.isActive = FALSE] ELSE sessions[i]]
  /\ req' = [req EXCEPT ![r] = [req[r] EXCEPT !.pc = "delete_audit"]]
  /\ UNCHANGED <<audit, now, ticks, budget, held, loggedOut, activations>>

(* deactivateUser resolves.                                                *)
DeleteWrite(r) ==
  /\ req[r].pc = "delete_write"
  /\ users' = deactivateUser(req[r].target)
  /\ req' = [req EXCEPT ![r] = [req[r] EXCEPT !.pc = "delete_audit"]]
  /\ UNCHANGED <<sessions, audit, now, ticks, budget, held, loggedOut, activations>>

DeleteAudit(r) ==
  /\ req[r].pc = "delete_audit"
  /\ audit' = createAuditLog(req[r].identity.id, "DELETE", req[r].target,
                             Redact(req[r].user), NoUser)
  /\ req' = [req EXCEPT ![r] = Respond(req[r], 200, "User deactivated successfully")]
  /\ UNCHANGED <<users, sessions, now, ticks, budget, held, loggedOut, activations>>

-----------------------------------------------------------------------------
(* POST /api/users                                                         *)

(* getUserByEmail resolves; a temporary password is drawn and hashed.      *)
CreateEmail(r, temporaryPassword) ==
  /\ req[r].pc = "create_email"
  /\ req' = [req EXCEPT ![r] =
               IF getUserByEmail(req[r].patch.email).id # 0
               THEN Respond(req[r], 400, "Email already exists")
               ELSE [req[r] EXCEPT !.pc = "create_write", !.password = temporaryPassword]]
  /\ UNCHANGED <<users, sessions, audit, now, ticks, budget, held, loggedOut, activations>>

(* createUser resolves, or rejects and the catch block answers 500.        *)
CreateWrite(r) ==
  /\ req[r].pc = "create_write"
  /\ IF createUserFails(req[r].patch.email)
     THEN /\ req' = [req EXCEPT ![r] = Respond(req[r], 500, "Internal server error")]
          /\ UNCHANGED users
     ELSE /\ users' = createUser(req[r].patch, hashPassword(req[r].password))
          /\ req' = [req EXCEPT ![r] =
                       [req[r] EXCEPT !.pc = "create_audit",
                                      !.target = Len(users'),
                                      !.updated = users'[Len(users')]]]
  /\ UNCHANGED <<sessions, audit, now, ticks, budget, held, loggedOut, activations>>

CreateAudit(r) ==
  /\ req[r].pc = "create_audit"
  /\ audit' = createAuditLog(req[r].identity.id, "CREATE", req[r].target,
                             NoUser, Redact(req[r].updated))
  /\ req' = [req EXCEPT ![r] = Respond(req[r], 201, "")]
  /\ UNCHANGED <<users, sessions, now, ticks, budget, held, loggedOut, activations>>

-----------------------------------------------------------------------------
(* PUT /api/users/:id                                                      *)

UpdateUser(r) ==
  /\ req[r].pc = "update_user"
  /\ LET user == getUser(req[r].target)
     IN req' = [req EXCEPT ![r] =
                  IF user.id = 0 THEN Respond(req[r], 404, "User not found")
                  ELSE [req[r] EXCEPT !.user = user,
                          !.pc = IF req[r].patch.email # "" /\ req[r].patch.email # user.email
                                 THEN "update_email" ELSE "update_write"]]
  /\ UNCHANGED <<users, sessions, audit, now, ticks, budget, held, loggedOut, activations>>

UpdateEmail(r) ==
  /\ req[r].pc = "update_email"
  /\ req' = [req EXCEPT ![r] =
               IF getUserByEmail(req[r].patch.email).id # 0
               THEN Respond(req[r], 400, "Email already exists")
               ELSE [req[r] EXCEPT !.pc = "update_write"]]
  /\ UNCHANGED <<users, sessions, audit, now, ticks, budget, held, loggedOut, activations>>

UpdateWrite(r) ==
  /\ req[r].pc = "update_write"
  /\ IF updateUserFails(req[r].target, req[r].patch)
     THEN /\ req' = [req EXCEPT ![r] = Respond(req[r], 500, "Internal server error")]
          /\ UNCHANGED <<users, activations>>
     ELSE /\ users' = updateUser(req[r].target, req[r].patch)
          /\ req' = [req EXCEPT ![r] =
                       [req[r] EXCEPT !.pc = "update_audit",
                                      !.updated = users'[req[r].target]]]
          /\ activations' = IF ~users[req[r].target].isActive /\ users'[req[r].target].isActive
                            THEN activations + 1 ELSE activations
  /\ UNCHANGED <<sessions, audit, now, ticks, budget, held, loggedOut>>

UpdateAudit(r) ==
  /\ req[r].pc = "update_audit"
  /\ audit' = createAuditLog(req[r].identity.id, "UPDATE", req[r].target,
                             Redact(req[r].user), Redact(req[r].updated))
  /\ req' = [req EXCEPT ![r] = Respond(req[r], 200, "")]
  /\ UNCHANGED <<users, sessions, now, ticks, budget, held, loggedOut, activations>>

-----------------------------------------------------------------------------
(* POST /api/auth/forgot-password                                          *)

ForgotArrives(r, email) ==
  /\ Arrives(r)
  /\ LET task == [Arrived("forgot", NoUser) EXCEPT !.email = email]
     IN req' = [req EXCEPT ![r] =
                  IF email = "" THEN Respond(task, 400, "Email is required")
                  ELSE [task EXCEPT !.pc = "forgot_user"]]
  /\ UNCHANGED <<users, sessions, audit, now, ticks, held, loggedOut, activations>>

(* Faulty variant: an unknown email is answered 404.                       *)
ForgotUser_Reveals(r, temporaryPassword) ==
  /\ req[r].pc = "forgot_user"
  /\ LET user == getUserByEmail(req[r].email)
     IN req' = [req EXCEPT ![r] =
                  IF user.id = 0
                  THEN Respond(req[r], 404, "User not found")
                  ELSE [req[r] EXCEPT !.pc = "forgot_write", !.user = user,
                                      !.password = temporaryPassword]]
  /\ UNCHANGED <<users, sessions, audit, now, ticks, budget, held, loggedOut, activations>>

(* getUserByEmail resolves; a temporary password is drawn and hashed.      *)
ForgotUser(r, temporaryPassword) ==
  /\ req[r].pc = "forgot_user"
  /\ LET user == getUserByEmail(req[r].email)
     IN req' = [req EXCEPT ![r] =
                  IF user.id = 0
                  THEN Respond(req[r], 200, "If the email exists, a recovery link has been sent")
                  ELSE [req[r] EXCEPT !.pc = "forgot_write", !.user = user,
                                      !.password = temporaryPassword]]
  /\ UNCHANGED <<users, sessions, audit, now, ticks, budget, held, loggedOut, activations>>

ForgotWrite(r) ==
  /\ req[r].pc = "forgot_write"
  /\ users' = resetPassword(req[r].user.id, hashPassword(req[r].password))
  /\ req' = [req EXCEPT ![r] = [req[r] EXCEPT !.pc = "forgot_audit"]]
  /\ UNCHANGED <<sessions, audit, now, ticks, budget, held, loggedOut, activations>>

ForgotAudit(r) ==
  /\ req[r].pc = "forgot_audit"
  /\ audit' = createAuditLog(req[r].user.id, "PASSWORD_RESET", req[r].user.id,
                             NoUser, NoUser)
  /\ req' = [req EXCEPT ![r] =
               Respond(req[r], 200, "If the email exists, a recovery link has been sent")]
  /\ UNCHANGED <<users, sessions, now, ticks, budget, held, loggedOut, activations>>

-----------------------------------------------------------------------------
(* Storage operations that reject.  `fault` records which call rejected:   *)
(* the user lookup of the gate, or the audit write of the named action.    *)

(* authenticate: getUser rejects; the catch block answers.                 *)
AuthUserFails(r) ==
  /\ req[r].pc = "auth_user"
  /\ req' = [req EXCEPT ![r] =
               [Respond(req[r], 401, "Authentication failed") EXCEPT !.fault = "getUser"]]
  /\ UNCHANGED <<users, sessions, audit, now, ticks, budget, held, loggedOut, activations>>

(* Faulty variant: the gate's failed audit write surfaces as a 500.        *)
AuthAuditFails_Leaks(r) ==
  /\ req[r].pc = "auth_audit"
  /\ req' = [req EXCEPT ![r] =
               [Respond(req[r], 500, "Internal server error") EXCEPT !.fault = "API_ACCESS"]]
  /\ UNCHANGED <<users, sessions, audit, now, ticks, budget, held, loggedOut, activations>>

(* authenticate: createAuditLog rejects after req.user was set; the catch  *)
(* block answers and next() is not called.                                 *)
AuthAuditFails(r) ==
  /\ req[r].pc = "auth_audit"
  /\ req' = [req EXCEPT ![r] =
               [Respond(req[r], 401, "Authentication failed") EXCEPT !.fault = "API_ACCESS"]]
  /\ UNCHANGED <<users, sessions, audit, now, ticks, budget, held, loggedOut, activations>>

(* login: createAuditLog rejects after the session was stored; the catch   *)
(* block answers.                                                          *)
LoginAuditFails(r) ==
  /\ req[r].pc = "login_audit"
  /\ req' = [req EXCEPT ![r] =
               [Respond(req[r], 500, "Internal server error") EXCEPT !.fault = "LOGIN"]]
  /\ UNCHANGED <<users, sessions, audit, now, ticks, budget, held, loggedOut, activations>>

(* logout: createAuditLog rejects after deactivateSession; the catch block *)
(* answers.                                                                *)
LogoutAuditFails(r) ==
  /\ req[r].pc = "logout_audit"
  /\ req' = [req EXCEPT ![r] =
               [Respond(req[r], 500, "Internal server error") EXCEPT !.fault = "LOGOUT"]]
  /\ UNCHANGED <<users, sessions, audit, now, ticks, budget, held, loggedOut, activations>>

-----------------------------------------------------------------------------
(* The requests clients send.  A client can present the tokens some        *)
(* response has carried, and strings that are no token of this server.     *)

Emails == {AdminEmail, "nobody@mecone.com"}
Passwords == {AdminPassword, "wrong"}
HeldAccess == {t \in held : t.key = JWT_SECRET}
HeldRefresh == {t \in held : t.key = JWT_REFRESH_SECRET}
Bearers == held \cup {NoHeader, NoBearer, Garbage}
RefreshTokens == held \cup {NoToken, Garbage}

(* Bodies of POST /api/users and PUT /api/users/:id that pass validation.  *)
NewEmail == "new@mecone.com"

CreateBodies == {[NoPatch EXCEPT !.email = NewEmail, !.profile = "MANAGER"]}

UpdateBodies ==
  {[NoPatch EXCEPT !.email = NewEmail],
   [NoPatch EXCEPT !.email = AdminEmail],
   [NoPatch EXCEPT !.password = "secret"],
   [NoPatch EXCEPT !.mustChangePassword = "false"],
   [NoPatch EXCEPT !.temporaryPassword = "true", !.mustChangePassword = "false"]}

(* Strings generateTemporaryPassword may return.                           *)
TemporaryPasswords == {"tmp-1", "tmp-2"}

-----------------------------------------------------------------------------
(* Spec: one client at a time; every request runs to its response before   *)
(* the next arrives, and the clock moves between any two steps.            *)

Init ==
  /\ Fresh
  /\ budget = MaxRequests
  /\ ticks = MaxTicks

Next ==
  \/ \E d \in TickSteps : Tick(d)
  \/ \E email \in Emails \cup {""}, password \in Passwords \cup {""} :
       LoginArrives("a", email, password)
  \/ LoginUser("a")
  \/ LoginCompare("a")
  \/ LoginTouch("a")
  \/ LoginSession("a")
  \/ LoginAudit("a")
  \/ \E t \in RefreshTokens : RefreshArrives("a", t)
  \/ RefreshSession("a")
  \/ RefreshUser("a")
  \/ \E b \in HeldAccess, t \in HeldRefresh \cup {NoToken} :
       AuthedArrives("a", "logout", b, t, 0, NoPatch)
  \/ \E b \in Bearers : AuthedArrives("a", "me", b, NoToken, 0, NoPatch)
  \/ \E b \in HeldAccess, u \in {1, 2} : AuthedArrives("a", "delete", b, NoToken, u, NoPatch)
  \/ AuthUser("a")
  \/ AuthAudit("a")
  \/ Authorize("a")
  \/ LogoutRevoke("a")
  \/ LogoutAudit("a")
  \/ MeRead("a")
  \/ DeleteUser("a")
  \/ DeleteWrite("a")
  \/ DeleteAudit("a")

Spec == Init /\ [][Next]_vars

-----------------------------------------------------------------------------
(* SpecRace: two clients log in at once; the steps of the two requests     *)
(* interleave, within one clock second or across two.                      *)

InitRace ==
  /\ Fresh
  /\ budget = MaxRaceRequests
  /\ ticks = MaxRaceTicks

NextRace ==
  \/ Tick(1)
  \/ \E r \in Slots :
       \/ \E password \in Passwords : LoginArrives(r, AdminEmail, password)
       \/ LoginUser(r)
       \/ LoginCompare(r)
       \/ LoginTouch(r)
       \/ LoginSession(r)
       \/ LoginAudit(r)

SpecRace == InitRace /\ [][NextRace]_vars

-----------------------------------------------------------------------------
(* SpecRevoke: one client that logs in, refreshes and logs out, with the   *)
(* tokens it was given, over two clock seconds.                            *)

InitRevoke ==
  /\ Fresh
  /\ budget = MaxRevokeRequests
  /\ ticks = MaxRevokeTicks

NextRevoke ==
  \/ Tick(1)
  \/ LoginArrives("a", AdminEmail, AdminPassword)
  \/ LoginUser("a")
  \/ LoginCompare("a")
  \/ LoginTouch("a")
  \/ LoginSession("a")
  \/ LoginAudit("a")
  \/ \E t \in HeldRefresh : RefreshArrives("a", t)
  \/ RefreshSession("a")
  \/ RefreshUser("a")
  \/ \E b \in HeldAccess, t \in HeldRefresh : AuthedArrives("a", "logout", b, t, 0, NoPatch)
  \/ AuthUser("a")
  \/ AuthAudit("a")
  \/ LogoutRevoke("a")
  \/ LogoutAudit("a")

SpecRevoke == InitRevoke /\ [][NextRevoke]_vars

-----------------------------------------------------------------------------
(* SpecAdmin: the administrator's clients, two requests at a time: log in, *)
(* use and refresh the tokens, deactivate the administrator's own account  *)
(* and set it active again.                                                *)

InitAdmin ==
  /\ Fresh
  /\ budget = MaxAdminRequests
  /\ ticks = 0

NextAdmin ==
  \E r \in Slots :
    \/ LoginArrives(r, AdminEmail, AdminPassword)
    \/ LoginUser(r)
    \/ LoginCompare(r)
    \/ LoginTouch(r)
    \/ LoginSession(r)
    \/ LoginAudit(r)
    \/ \E t \in HeldRefresh : RefreshArrives(r, t)
    \/ RefreshSession(r)
    \/ RefreshUser(r)
    \/ \E b \in HeldAccess : AuthedArrives(r, "me", b, NoToken, 0, NoPatch)
    \/ \E b \in HeldAccess : AuthedArrives(r, "delete", b, NoToken, 1, NoPatch)
    \/ \E b \in HeldAccess :
         AuthedArrives(r, "update", b, NoToken, 1, [NoPatch EXCEPT !.isActive = "true"])
    \/ AuthUser(r)
    \/ AuthAudit(r)
    \/ Authorize(r)
    \/ MeRead(r)
    \/ DeleteUser(r)
    \/ DeleteWrite(r)
    \/ DeleteAudit(r)
    \/ UpdateUser(r)
    \/ UpdateWrite(r)
    \/ UpdateAudit(r)

SpecAdmin == InitAdmin /\ [][NextAdmin]_vars

-----------------------------------------------------------------------------
(* SpecGate: the authorization gate on every identity and every allow-set: *)
(* a request that authenticate has let through (or, for the gate's first   *)
(* branch, one with no identity) stands before authorize(allow).           *)

Identities ==
  {NoIdentity} \cup {[id |-> 1, email |-> AdminEmail, profile |-> p] : p \in userProfiles}

InitGate ==
  /\ FreshStore
  /\ budget = 0
  /\ ticks = 0
  /\ \E kind \in {"users", "delete"}, identity \in Identities, allow \in SUBSET userProfiles :
       req = [r \in Slots |->
                IF r = "a"
                THEN [Idle EXCEPT !.kind = kind, !.pc = "authorize", !.gated = TRUE,
                                  !.allow = allow, !.identity = identity, !.target = 1,
                                  !.at = now]
                ELSE Idle]

NextGate ==
  \/ Authorize("a")
  \/ UsersRead("a")
  \/ DeleteUser("a")
  \/ DeleteWrite("a")
  \/ DeleteAudit("a")

SpecGate == InitGate /\ [][NextGate]_vars

-----------------------------------------------------------------------------
(* What the claims speak of.                                               *)

Answered(r) == req[r].pc = "done"

Answers(r) == req[r].pc # "done" /\ req'[r].pc = "done"

AuthedKinds == {"logout", "me", "users", "create", "delete", "update"}

SessionRows(token) == {i \in DOMAIN sessions : sessions[i].token = token}

-----------------------------------------------------------------------------
(* SpecAudit: one client at a time that logs in (also with a temporary     *)
(* password), asks for a password reset, logs out with any refresh token   *)
(* or none, and calls an authenticated route with any bearer value.        *)

InitAudit ==
  /\ Fresh
  /\ budget = MaxAuditRequests
  /\ ticks = MaxAuditTicks

NextAudit ==
  \/ \E d \in {1, AccessTTL} : Tick(d)
  \/ \E email \in Emails \cup {""}, password \in Passwords \cup TemporaryPasswords :
       LoginArrives("a", email, password)
  \/ LoginUser("a")
  \/ LoginCompare("a")
  \/ LoginTouch("a")
  \/ LoginSession("a")
  \/ LoginAudit("a")
  \/ \E email \in Emails \cup {""} : ForgotArrives("a", email)
  \/ \E temporaryPassword \in TemporaryPasswords : ForgotUser("a", temporaryPassword)
  \/ ForgotWrite("a")
  \/ ForgotAudit("a")
  \/ \E b \in HeldAccess, t \in HeldRefresh \cup {NoToken, Garbage} :
       AuthedArrives("a", "logout", b, t, 0, NoPatch)
  \/ \E b \in Bearers : AuthedArrives("a", "me", b, NoToken, 0, NoPatch)
  \/ AuthUser("a")
  \/ AuthAudit("a")
  \/ LogoutRevoke("a")
  \/ LogoutAudit("a")
  \/ MeRead("a")

SpecAudit == InitAudit /\ [][NextAudit]_vars

-----------------------------------------------------------------------------
(* SpecUsers: the administrator logs in and then creates, updates and      *)
(* deactivates users and asks for password resets, one request at a time.  *)

InitUsers ==
  /\ Fresh
  /\ budget = MaxUsersRequests
  /\ ticks = 0

NextUsers ==
  \/ LoginArrives("a", AdminEmail, AdminPassword)
  \/ LoginUser("a")
  \/ LoginCompare("a")
  \/ LoginTouch("a")
  \/ LoginSession("a")
  \/ LoginAudit("a")
  \/ ForgotArrives("a", NewEmail)
  \/ \E temporaryPassword \in TemporaryPasswords : ForgotUser("a", temporaryPassword)
  \/ ForgotWrite("a")
  \/ ForgotAudit("a")
  \/ \E b \in HeldAccess, body \in CreateBodies :
       AuthedArrives("a", "create", b, NoToken, 0, body)
  \/ \E b \in HeldAccess, id \in {1, 2}, body \in UpdateBodies :
       AuthedArrives("a", "update", b, NoToken, id, body)
  \/ \E b \in HeldAccess : AuthedArrives("a", "delete", b, NoToken, 2, NoPatch)
  \/ AuthUser("a")
  \/ AuthAudit("a")
  \/ Authorize("a")
  \/ \E temporaryPassword \in TemporaryPasswords : CreateEmail("a", temporaryPassword)
  \/ CreateWrite("a")
  \/ CreateAudit("a")
  \/ UpdateUser("a")
  \/ UpdateEmail("a")
  \/ UpdateWrite("a")
  \/ UpdateAudit("a")
  \/ DeleteUser("a")
  \/ DeleteWrite("a")
  \/ DeleteAudit("a")

SpecUsers == InitUsers /\ [][NextUsers]_vars

-----------------------------------------------------------------------------
(* SpecEmail: the administrator logs in and then sends, two at a time,     *)
(* requests that give a user the same new email: user creations and        *)
(* updates of the administrator's own record.                              *)

InitEmail ==
  /\ Fresh
  /\ budget = MaxEmailRequests
  /\ ticks = 0

NextEmail ==
  \E r \in Slots :
    \/ LoginArrives(r, AdminEmail, AdminPassword)
    \/ LoginUser(r)
    \/ LoginCompare(r)
    \/ LoginTouch(r)
    \/ LoginSession(r)
    \/ LoginAudit(r)
    \/ \E b \in HeldAccess, body \in CreateBodies :
         AuthedArrives(r, "create", b, NoToken, 0, body)
    \/ \E b \in HeldAccess :
         AuthedArrives(r, "update", b, NoToken, 1, [NoPatch EXCEPT !.email = NewEmail])
    \/ AuthUser(r)
    \/ AuthAudit(r)
    \/ Authorize(r)
    \/ \E temporaryPassword \in TemporaryPasswords : CreateEmail(r, temporaryPassword)
    \/ CreateWrite(r)
    \/ CreateAudit(r)
    \/ UpdateUser(r)
    \/ UpdateEmail(r)
    \/ UpdateWrite(r)
    \/ UpdateAudit(r)

SpecEmail == InitEmail /\ [][NextEmail]_vars

-----------------------------------------------------------------------------
(* SpecFault: one client that logs in, calls an authenticated route and    *)
(* logs out, while the user lookup of the gate and any audit write may     *)
(* reject.                                                                 *)

InitFault ==
  /\ Fresh
  /\ budget = MaxFaultRequests
  /\ ticks = 0

NextFault ==
  \/ LoginArrives("a", AdminEmail, AdminPassword)
  \/ LoginUser("a")
  \/ LoginCompare("a")
  \/ LoginTouch("a")
  \/ LoginSession("a")
  \/ LoginAudit("a")
  \/ LoginAuditFails("a")
  \/ \E b \in HeldAccess, t \in HeldRefresh \cup {NoToken} :
       AuthedArrives("a", "logout", b, t, 0, NoPatch)
  \/ \E b \in HeldAccess : AuthedArrives("a", "me", b, NoToken, 0, NoPatch)
  \/ AuthUser("a")
  \/ AuthUserFails("a")
  \/ AuthAudit("a")
  \/ AuthAuditFails("a")
  \/ LogoutRevoke("a")
  \/ LogoutAudit("a")
  \/ LogoutAuditFails("a")
  \/ MeRead("a")

SpecFault == InitFault /\ [][NextFault]_vars

-----------------------------------------------------------------------------
(* SpecStore: one client at a time on every route that writes: login,      *)
(* refresh, logout, forgot-password and the creation, update and           *)
(* deactivation of users.                                                  *)

InitStore ==
  /\ Fresh
  /\ budget = MaxStoreRequests
  /\ ticks = 0

NextStore ==
  \/ \E password \in Passwords : LoginArrives("a", AdminEmail, password)
  \/ LoginUser("a")
  \/ LoginCompare("a")
  \/ LoginTouch("a")
  \/ LoginSession("a")
  \/ LoginAudit("a")
  \/ \E t \in HeldRefresh : RefreshArrives("a", t)
  \/ RefreshSession("a")
  \/ RefreshUser("a")
  \/ \E email \in Emails : ForgotArrives("a", email)
  \/ \E temporaryPassword \in TemporaryPasswords : ForgotUser("a", temporaryPassword)
  \/ ForgotWrite("a")
  \/ ForgotAudit("a")
  \/ \E b \in HeldAccess, t \in HeldRefresh :
       AuthedArrives("a", "logout", b, t, 0, NoPatch)
  \/ \E b \in HeldAccess, body \in CreateBodies :
       AuthedArrives("a", "create", b, NoToken, 0, body)
  \/ \E b \in HeldAccess, id \in {1, 2}, body \in UpdateBodies :
       AuthedArrives("a", "update", b, NoToken, id, body)
  \/ \E b \in HeldAccess, id \in {1, 2} :
       AuthedArrives("a", "delete", b, NoToken, id, NoPatch)
  \/ AuthUser("a")
  \/ AuthAudit("a")
  \/ Authorize("a")
  \/ LogoutRevoke("a")
  \/ LogoutAudit("a")
  \/ \E temporaryPassword \in TemporaryPasswords : CreateEmail("a", temporaryPassword)
  \/ CreateWrite("a")
  \/ CreateAudit("a")
  \/ UpdateUser("a")
  \/ UpdateEmail("a")
  \/ UpdateWrite("a")
  \/ UpdateAudit("a")
  \/ DeleteUser("a")
  \/ DeleteWrite("a")
  \/ DeleteAudit("a")

SpecStore == InitStore /\ [][NextStore]_vars

-----------------------------------------------------------------------------
(* SpecSeed: server processes start, one after another or two together, on *)
(* a store that begins empty; once a record exists (a process has finished *)
(* seeding and serves), the administrator logs in and rewrites the         *)
(* administrator's record.                                                 *)

SeedBodies ==
  {[NoPatch EXCEPT !.email = NewEmail],
   [NoPatch EXCEPT !.password = "secret"],
   [NoPatch EXCEPT !.profile = "MANAGER"],
   [NoPatch EXCEPT !.isActive = "false"]}

InitSeed ==
  /\ users = <<>>
  /\ sessions = <<>>
  /\ audit = <<>>
  /\ now = 1
  /\ held = {}
  /\ loggedOut = {}
  /\ activations = 0
  /\ req = [r \in Slots |-> Idle]
  /\ budget = MaxSeedRequests
  /\ ticks = 0

NextSeed ==
  \E r \in Slots :
    \/ SeedArrives(r)
    \/ SeedUser(r)
    \/ SeedWrite(r)
    \/ users # <<>> /\ LoginArrives(r, AdminEmail, AdminPassword)
    \/ LoginUser(r)
    \/ LoginCompare(r)
    \/ LoginTouch(r)
    \/ LoginSession(r)
    \/ LoginAudit(r)
    \/ \E b \in HeldAccess, body \in SeedBodies :
         AuthedArrives(r, "update", b, NoToken, 1, body)
    \/ AuthUser(r)
    \/ AuthAudit(r)
    \/ Authorize(r)
    \/ UpdateUser(r)
    \/ UpdateEmail(r)
    \/ UpdateWrite(r)
    \/ UpdateAudit(r)

SpecSeed == InitSeed /\ [][NextSeed]_vars

-----------------------------------------------------------------------------
(* SpecSessions: the store after the administrator has logged in and       *)
(* created a manager, who was handed the temporary password.  One client   *)
(* at a time: the manager logs in, either user's tokens are refreshed and  *)
(* logged out, the manager's password is reset, and the manager's record   *)
(* is deactivated, reactivated and given a new password.                   *)

ManagerPassword == "tmp-1"

Manager ==
  [id |-> 2, email |-> NewEmail, password |-> hashPassword(ManagerPassword),
   profile |-> "MANAGER", isActive |-> TRUE, temporaryPassword |-> TRUE,
   mustChangePassword |-> TRUE, lastLogin |-> 0]

AdminTokens == generateTokens(TokenPayload(SeededAdmin), 1)

AuditRow(userId, action, recordId, newValues) ==
  [userId |-> userId, action |-> action, table |-> "users", recordId |-> recordId,
   oldValues |-> NoUser, newValues |-> newValues]

ManagedStore ==
  /\ users = <<[SeededAdmin EXCEPT !.lastLogin = 1], Manager>>
  /\ sessions = <<[userId |-> 1, token |-> AdminTokens.refreshToken,
                   isActive |-> TRUE, expiresAt |-> 1 + SessionTTL]>>
  /\ audit = <<AuditRow(1, "LOGIN", 1, NoUser), AuditRow(1, "API_ACCESS", 1, NoUser),
               AuditRow(1, "CREATE", 2, Redact(Manager))>>
  /\ now = 1
  /\ held = {AdminTokens.accessToken, AdminTokens.refreshToken}
  /\ loggedOut = {}
  /\ activations = 0

SessionBodies ==
  {[NoPatch EXCEPT !.isActive = "true"], [NoPatch EXCEPT !.password = "secret"]}

InitSessions ==
  /\ ManagedStore
  /\ req = [r \in Slots |-> Idle]
  /\ budget = MaxSessionRequests
  /\ ticks = 0

NextSessions ==
  \/ LoginArrives("a", NewEmail, ManagerPassword)
  \/ LoginUser("a")
  \/ LoginCompare("a")
  \/ LoginTouch("a")
  \/ LoginSession("a")
  \/ LoginAudit("a")
  \/ \E t \in HeldRefresh : RefreshArrives("a", t)
  \/ RefreshSession("a")
  \/ RefreshUser("a")
  \/ ForgotArrives("a", NewEmail)
  \/ \E temporaryPassword \in TemporaryPasswords : ForgotUser("a", temporaryPassword)
  \/ ForgotWrite("a")
  \/ ForgotAudit("a")
  \/ \E b \in HeldAccess, t \in HeldRefresh :
       AuthedArrives("a", "logout", b, t, 0, NoPatch)
  \/ \E b \in HeldAccess : AuthedArrives("a", "delete", b, NoToken, 2, NoPatch)
  \/ \E b \in HeldAccess, body \in SessionBodies :
       AuthedArrives("a", "update", b, NoToken, 2, body)
  \/ AuthUser("a")
  \/ AuthAudit("a")
  \/ Authorize("a")
  \/ LogoutRevoke("a")
  \/ LogoutAudit("a")
  \/ DeleteUser("a")
  \/ DeleteWrite("a")
  \/ DeleteAudit("a")
  \/ UpdateUser("a")
  \/ UpdateWrite("a")
  \/ UpdateAudit("a")

SpecSessions == InitSessions /\ [][NextSessions]_vars

-----------------------------------------------------------------------------
(* SpecRole: one client at a time, over a clock that may jump once by a    *)
(* second or by the life of an access token: the administrator logs in, by *)
(* the old or the new email, changes the role or the email of the          *)
(* administrator's record, refreshes, and lists the users with any access  *)
(* token received.                                                         *)

RoleBodies ==
  {[NoPatch EXCEPT !.profile = "COORDINATOR"],
   [NoPatch EXCEPT !.profile = "MANAGER"],
   [NoPatch EXCEPT !.email = NewEmail]}

InitRole ==
  /\ Fresh
  /\ budget = MaxRoleRequests
  /\ ticks = MaxRoleTicks

NextRole ==
  \/ \E d \in {1, AccessTTL} : Tick(d)
  \/ \E email \in {AdminEmail, NewEmail} : LoginArrives("a", email, AdminPassword)
  \/ LoginUser("a")
  \/ LoginCompare("a")
  \/ LoginTouch("a")
  \/ LoginSession("a")
  \/ LoginAudit("a")
  \/ \E t \in HeldRefresh : RefreshArrives("a", t)
  \/ RefreshSession("a")
  \/ RefreshUser("a")
  \/ \E b \in HeldAccess : AuthedArrives("a", "users", b, NoToken, 0, NoPatch)
  \/ \E b \in HeldAccess, body \in RoleBodies :
       AuthedArrives("a", "update", b, NoToken, 1, body)
  \/ AuthUser("a")
  \/ AuthAudit("a")
  \/ Authorize("a")
  \/ UsersRead("a")
  \/ UpdateUser("a")
  \/ UpdateEmail("a")
  \/ UpdateWrite("a")
  \/ UpdateAudit("a")

SpecRole == InitRole /\ [][NextRole]_vars

-----------------------------------------------------------------------------
(* C1: once a logout carrying refresh token t has completed, every refresh *)
(* request that arrives later with t is answered 401 and given no tokens.  *)
C1_RevokedTokenNeverRefreshes ==
  \A r \in Slots :
    (req[r].kind = "refresh" /\ req[r].afterLogout /\ Answered(r))
      => (req[r].status = 401 /\ req[r].body = NoTokens)

-----------------------------------------------------------------------------
(* C2: a refresh request is honoured only on a live session: when the      *)
(* handler's session lookup lets the request through, a session row for    *)
(* its refresh token is active and expires strictly after the clock        *)
(* reading at which the handler verified the token; and a refresh request  *)
(* is answered 200 only after that lookup, the row still expiring later    *)
(* than that reading.                                                      *)
C2_Honoured(r) ==
  /\ (req[r].pc = "refresh_session" /\ req'[r].pc = "refresh_user")
       => \E i \in SessionRows(req[r].refreshToken) :
            sessions[i].isActive /\ sessions[i].expiresAt > req[r].at
  /\ (req[r].kind = "refresh" /\ Answers(r) /\ req'[r].status = 200)
       => /\ req[r].pc = "refresh_user"
          /\ \E i \in SessionRows(req[r].refreshToken) : sessions[i].expiresAt > req[r].at

-----------------------------------------------------------------------------
(* C3: two login requests in flight together with the correct password of  *)
(* the same active user are both answered 200, with two different refresh  *)
(* tokens, each of which has an active session row.                        *)
CorrectLogin(r) ==
  /\ req[r].kind = "login"
  /\ Answered(r)
  /\ req[r].email = AdminEmail
  /\ req[r].password = AdminPassword

C3_ConcurrentLoginsBothSucceed ==
  \A r1, r2 \in Slots :
    (r1 # r2 /\ CorrectLogin(r1) /\ CorrectLogin(r2))
      => /\ req[r1].status = 200 /\ req[r2].status = 200
         /\ req[r1].body.refreshToken # req[r2].body.refreshToken
         /\ \A r \in {r1, r2} :
              \E i \in SessionRows(req[r].body.refreshToken) : sessions[i].isActive

-----------------------------------------------------------------------------
(* C4: every LOGIN audit row belongs to a login whose session row is       *)
(* stored: the LOGIN rows, plus the logins that have stored their session  *)
(* and not yet written their row, are exactly as many as the session rows; *)
(* a login answered 200 has both its session row and a LOGIN row behind    *)
(* it; and a login answered anything else returned no tokens.              *)
LoginRows == {i \in DOMAIN audit : audit[i].action = "LOGIN"}

C4_SessionThenAuditThenResponse ==
  /\ Cardinality(LoginRows) + Cardinality({r \in Slots : req[r].pc = "login_audit"})
       = Len(sessions)
  /\ \A r \in Slots :
       (req[r].kind = "login" /\ Answered(r))
         => IF req[r].status = 200
            THEN /\ SessionRows(req[r].body.refreshToken) # {}
                 /\ \E i \in LoginRows : audit[i].userId = req[r].body.refreshToken.userId
            ELSE req[r].body = NoTokens

(* One login has been answered 200 and another, whose session the store    *)
(* refused, has been answered 500, with a single LOGIN row written.        *)
C4_Witness ==
  /\ \E r \in Slots : req[r].kind = "login" /\ Answered(r) /\ req[r].status = 200
  /\ \E r \in Slots : req[r].kind = "login" /\ Answered(r) /\ req[r].status = 500
  /\ Cardinality(LoginRows) = 1

-----------------------------------------------------------------------------
(* C5: the authentication gate attaches an identity only to a request      *)
(* whose bearer value verifies as an unexpired access token and whose user *)
(* exists and is active at the lookup; only a request with an identity     *)
(* reaches the authorization gate or a handler; and a request with no      *)
(* header, no token, an invalid or expired token, or an unknown or         *)
(* inactive user is answered 401 with no identity attached.                *)
HandlerPcs ==
  {"authorize", "logout_revoke", "logout_audit", "me_read", "users_read",
   "delete_user", "delete_write", "delete_audit",
   "create_email", "create_write", "create_audit",
   "update_user", "update_email", "update_write", "update_audit"}

C5_GateStep(r) ==
  /\ (req[r].identity = NoIdentity /\ req'[r].identity # NoIdentity)
       => /\ req[r].kind \in AuthedKinds
          /\ req[r].bearer.key = JWT_SECRET
          /\ req[r].at < req[r].bearer.exp
          /\ \E i \in DOMAIN users :
               users[i].id = req[r].bearer.userId /\ users[i].isActive
  /\ (req'[r].pc \in HandlerPcs /\ req[r].pc \notin HandlerPcs)
       => /\ req[r].pc = "auth_audit"
          /\ req[r].identity # NoIdentity
  /\ (req[r].pc = "auth_user" /\ req'[r] # req[r]
        /\ ~\E i \in DOMAIN users :
              users[i].id = req[r].bearer.userId /\ users[i].isActive)
       => /\ req'[r].pc = "done" /\ req'[r].status = 401
          /\ req'[r].identity = NoIdentity
  /\ (Free(r) /\ req'[r].kind \in AuthedKinds /\ req'[r] # req[r]
        /\ (req'[r].bearer.key # JWT_SECRET \/ now >= req'[r].bearer.exp))
       => /\ req'[r].pc = "done" /\ req'[r].status = 401
          /\ req'[r].identity = NoIdentity

C5_AuthenticationGate == [][\A r \in Slots : C5_GateStep(r)]_vars

(* A request bearing an unexpired access token of a deactivated user has   *)
(* been answered 401 by the gate's user lookup.                            *)
C5_Witness ==
  \E r \in Slots :
    /\ req[r].kind \in AuthedKinds /\ Answered(r)
    /\ verifyToken(req[r].bearer, req[r].at)
    /\ req[r].status = 401 /\ req[r].message = "User not found or inactive"

-----------------------------------------------------------------------------
(* C6: a step of the authorization gate configured with allow-set S        *)
(* answers 401 when no identity is attached, answers 403 when the          *)
(* identity's role is not in S, and otherwise hands the request, unchanged, *)
(* to the handler; in each case users, sessions and audit rows stay as     *)
(* they were.                                                              *)
C6_GateStep(r) ==
  (req[r].pc = "authorize" /\ req'[r] # req[r])
    => /\ UNCHANGED <<users, sessions, audit>>
       /\ IF req[r].identity = NoIdentity
          THEN req'[r].pc = "done" /\ req'[r].status = 401
          ELSE IF req[r].identity.profile \notin req[r].allow
          THEN req'[r].pc = "done" /\ req'[r].status = 403
          ELSE /\ req'[r] = [req[r] EXCEPT !.pc = req'[r].pc]
               /\ req'[r].pc \in HandlerPcs \ {"authorize"}

C6_AuthorizationGate == [][\A r \in Slots : C6_GateStep(r)]_vars

(* The gate has answered 403 to an identity whose role is outside S, and   *)
(* nothing was stored.                                                     *)
C6_Witness ==
  \E r \in Slots :
    /\ Answered(r) /\ req[r].status = 403
    /\ req[r].identity # NoIdentity /\ req[r].identity.profile \notin req[r].allow
    /\ audit = <<>>

-----------------------------------------------------------------------------
(* C7: a request whose bearer value is a refresh token is answered 401 by  *)
(* the authentication gate and gets no identity; a refresh request whose   *)
(* body carries an access token is answered 401 and gets no tokens.        *)
C7_TokensNotInterchangeable ==
  \A r \in Slots :
    /\ (req[r].kind \in AuthedKinds /\ req[r].bearer.key = JWT_REFRESH_SECRET)
         => /\ Answered(r) /\ req[r].status = 401
            /\ req[r].identity = NoIdentity
    /\ (req[r].kind = "refresh" /\ req[r].refreshToken.key = JWT_SECRET)
         => /\ Answered(r) /\ req[r].status = 401
            /\ req[r].body = NoTokens

(* An unexpired refresh token of the active administrator, whose session   *)
(* is active, was presented as the bearer value and answered 401.          *)
C7_Witness ==
  \E r \in Slots :
    /\ req[r].kind \in AuthedKinds /\ Answered(r)
    /\ verifyRefreshToken(req[r].bearer, req[r].at)
    /\ getActiveSession(req[r].bearer)
    /\ getUser(req[r].bearer.userId).isActive
    /\ \E t \in held : t.key = JWT_SECRET /\ t.userId = req[r].bearer.userId
                         /\ t.email = req[r].bearer.email
                         /\ t.profile = req[r].bearer.profile
    /\ req[r].status = 401

-----------------------------------------------------------------------------
(* C8: a request whose access token was issued 15 minutes or more before   *)
(* it arrives is answered 401 by the authentication gate and gets no       *)
(* identity; a refresh request whose refresh token was issued 7 days or    *)
(* more before it arrives is answered 401 and gets no tokens, whatever the *)
(* state of its session and of its user.                                   *)
C8_ExpiryEnforced ==
  \A r \in Slots :
    /\ (req[r].kind \in AuthedKinds /\ req[r].bearer.key = JWT_SECRET
          /\ req[r].at >= req[r].bearer.iat + 15 * 60)
         => /\ Answered(r) /\ req[r].status = 401
            /\ req[r].identity = NoIdentity
    /\ (req[r].kind = "refresh" /\ req[r].refreshToken.key = JWT_REFRESH_SECRET
          /\ req[r].at >= req[r].refreshToken.iat + 7 * 24 * 60 * 60)
         => /\ Answered(r) /\ req[r].status = 401
            /\ req[r].body = NoTokens

(* A refresh token exactly 7 days old, whose session and user are both     *)
(* still active, was presented to the refresh handler and answered 401.    *)
C8_Witness ==
  \E r \in Slots :
    /\ req[r].kind = "refresh" /\ Answered(r)
    /\ req[r].refreshToken.key = JWT_REFRESH_SECRET
    /\ req[r].at = req[r].refreshToken.iat + 7 * 24 * 60 * 60
    /\ getActiveSession(req[r].refreshToken)
    /\ getUser(req[r].refreshToken.userId).isActive
    /\ req[r].status = 401

-----------------------------------------------------------------------------
(* C9: a login whose email names no user, a login whose user is            *)
(* deactivated and a login whose password does not match are all answered  *)
(* with status 401, the message "Invalid credentials" and no tokens.       *)
InvalidCredentials(task) ==
  /\ task.pc = "done"
  /\ task.status = 401
  /\ task.message = "Invalid credentials"
  /\ task.body = NoTokens

C9_LoginStep(r) ==
  /\ (req[r].pc = "login_user" /\ req'[r] # req[r]
        /\ ~\E i \in DOMAIN users : users[i].email = req[r].email /\ users[i].isActive)
       => InvalidCredentials(req'[r])
  /\ (req[r].pc = "login_compare" /\ req'[r] # req[r]
        /\ req[r].user.password # hashPassword(req[r].password))
       => InvalidCredentials(req'[r])
  /\ (req[r].kind = "login" /\ Answers(r) /\ req'[r].status \notin {200, 400, 500})
       => InvalidCredentials(req'[r])

C9_LoginFailuresIndistinguishable == [][\A r \in Slots : C9_LoginStep(r)]_vars

(* A login with the correct password of the deactivated administrator has  *)
(* been answered.                                                          *)
C9_Witness ==
  \E r \in Slots :
    /\ req[r].kind = "login" /\ Answered(r)
    /\ req[r].email = AdminEmail /\ req[r].password = AdminPassword
    /\ req[r].inactive
    /\ req[r].status = 401

-----------------------------------------------------------------------------
(* C10: a request that arrives with the credentials of a user who is       *)
(* deactivated, and during which the user is not activated again, gets no  *)
(* identity and no tokens and, once answered, has status 401: this holds   *)
(* for a request bearing an access token, for a refresh and for a login.   *)
WhileInactive(r) ==
  /\ req[r].kind \in AuthedKinds \cup {"refresh", "login"}
  /\ req[r].inactive
  /\ req[r].epoch = activations

C10_DeactivatedUserLockedOut ==
  \A r \in Slots :
    WhileInactive(r)
      => /\ req[r].identity = NoIdentity
         /\ req[r].body = NoTokens
         /\ req[r].tokens = NoTokens
         /\ Answered(r) => req[r].status = 401

(* A refresh with an unexpired refresh token, whose session is active, of  *)
(* the deactivated administrator has been answered 401.                    *)
C10_Witness ==
  \E r \in Slots :
    /\ WhileInactive(r) /\ req[r].kind = "refresh" /\ Answered(r)
    /\ verifyRefreshToken(req[r].refreshToken, req[r].at)
    /\ getActiveSession(req[r].refreshToken)
    /\ req[r].status = 401

-----------------------------------------------------------------------------
(* C11: in every step, the LOGIN, LOGOUT and PASSWORD_RESET rows the step  *)
(* adds to the audit log are exactly one per request the step answers      *)
(* successfully on the login, logout and forgot-password route (the last   *)
(* for an existing email), each with the affected user as actor and record *)
(* id; a step that answers none of these successfully adds no such row,    *)
(* and no row is ever removed.                                             *)
AuditedAction(kind) ==
  IF kind = "login" THEN "LOGIN"
  ELSE IF kind = "logout" THEN "LOGOUT"
  ELSE IF kind = "forgot" THEN "PASSWORD_RESET"
  ELSE "none"

UserIdOf(email) ==
  IF \E i \in DOMAIN users : users[i].email = email
  THEN CHOOSE i \in DOMAIN users : users[i].email = email
  ELSE 0

AffectedUser(r) ==
  IF req[r].kind = "logout" THEN req[r].bearer.userId ELSE UserIdOf(req[r].email)

Succeeds(r, action) ==
  /\ Answers(r)
  /\ AuditedAction(req[r].kind) = action
  /\ req'[r].status = 200
  /\ AffectedUser(r) # 0

C11_Step ==
  /\ Len(audit') >= Len(audit)
  /\ SubSeq(audit', 1, Len(audit)) = audit
  /\ \A action \in {"LOGIN", "LOGOUT", "PASSWORD_RESET"} :
       LET added == {i \in DOMAIN audit' : i > Len(audit) /\ audit'[i].action = action}
           winners == {r \in Slots : Succeeds(r, action)}
       IN /\ Cardinality(added) = Cardinality(winners)
          /\ \A r \in winners :
               \E i \in added : /\ audit'[i].userId = AffectedUser(r)
                                /\ audit'[i].recordId = AffectedUser(r)

C11_AuditCompleteness == [][C11_Step]_vars

(* A password reset for an existing email, a login and a logout have each  *)
(* been answered, and the log holds one row of each of the three actions.  *)
C11_Witness ==
  /\ \A action \in {"LOGIN", "LOGOUT", "PASSWORD_RESET"} :
       Cardinality({i \in DOMAIN audit : audit[i].action = action}) = 1
  /\ budget = 0
  /\ \A r \in Slots : Free(r)

-----------------------------------------------------------------------------
(* C12: every CREATE, UPDATE and DELETE audit row carries its snapshots    *)
(* (new; old and new; old), and in every audit row each snapshot of a user *)
(* record has the redaction marker as its password field: no row holds a   *)
(* stored password, hashed or plain, or a temporary password.              *)
Snapshots(row) == {v \in {row.oldValues, row.newValues} : v # NoUser}

Secrets ==
  {users[i].password : i \in DOMAIN users}
    \cup {hashPassword(t) : t \in TemporaryPasswords}
    \cup {[alg |-> "plain", of |-> t] : t \in TemporaryPasswords}

C12_SnapshotsRedacted ==
  \A i \in DOMAIN audit :
    /\ \A v \in Snapshots(audit[i]) : v.password = Hidden /\ v.password \notin Secrets
    /\ audit[i].action = "CREATE" => audit[i].newValues # NoUser
    /\ audit[i].action = "UPDATE"
         => audit[i].oldValues # NoUser /\ audit[i].newValues # NoUser
    /\ audit[i].action = "DELETE" => audit[i].oldValues # NoUser

(* Rows of a creation, of an update that stored a plain password and of a  *)
(* deactivation are in the log.                                            *)
C12_Witness ==
  /\ \E i \in DOMAIN audit : audit[i].action = "CREATE"
  /\ \E i \in DOMAIN audit :
       /\ audit[i].action = "UPDATE"
       /\ users[audit[i].recordId].password = [alg |-> "plain", of |-> "secret"]
  /\ \E i \in DOMAIN audit : audit[i].action = "DELETE"

-----------------------------------------------------------------------------
(* C13: a login whose LOGIN audit write failed after its session was       *)
(* stored is answered 200 with its token pair, and a logout whose LOGOUT   *)
(* audit write failed is answered 200 "Logged out successfully".           *)
C13_AuditFailureDoesNotBlock ==
  \A r \in Slots :
    /\ (req[r].kind = "login" /\ req[r].fault = "LOGIN")
         => /\ Answered(r) /\ req[r].status = 200
            /\ req[r].body # NoTokens
    /\ (req[r].kind = "logout" /\ req[r].fault = "LOGOUT")
         => /\ Answered(r) /\ req[r].status = 200
            /\ req[r].message = "Logged out successfully"

-----------------------------------------------------------------------------
(* C14: the step that takes a request past the authentication gate appends *)
(* one API_ACCESS row on table users with the caller's id as actor and     *)
(* record id; no other step adds an API_ACCESS row, so a request the gate  *)
(* rejects adds none; and a request past the gate never passes it again.   *)
PassesGate(r) == req[r].pc \notin HandlerPcs /\ req'[r].pc \in HandlerPcs

C14_Step ==
  /\ \A r \in Slots :
       /\ PassesGate(r)
            => /\ req[r].pc = "auth_audit"
               /\ Len(audit') = Len(audit) + 1
               /\ SubSeq(audit', 1, Len(audit)) = audit
               /\ audit'[Len(audit')].action = "API_ACCESS"
               /\ audit'[Len(audit')].table = "users"
               /\ audit'[Len(audit')].userId = req[r].bearer.userId
               /\ audit'[Len(audit')].recordId = req[r].bearer.userId
       /\ req[r].pc \in HandlerPcs => req'[r].pc \in HandlerPcs \cup {"done"}
       /\ (req'[r].kind \in AuthedKinds /\ req[r].pc \notin HandlerPcs
             /\ req'[r] # req[r] /\ req'[r].pc = "done")
            => audit' = audit
  /\ Cardinality({i \in DOMAIN audit' : i > Len(audit) /\ audit'[i].action = "API_ACCESS"})
       = Cardinality({r \in Slots : PassesGate(r)})

C14_ApiAccessAudited == [][C14_Step]_vars

(* One request has been rejected by the gate's user lookup and another is  *)
(* past the gate; the log holds the API_ACCESS rows of the requests that   *)
(* passed.                                                                 *)
C14_Witness ==
  /\ \E r \in Slots :
       /\ req[r].kind \in AuthedKinds /\ Answered(r)
       /\ req[r].status = 401 /\ req[r].identity = NoIdentity
  /\ \E r \in Slots : req[r].pc \in HandlerPcs
  /\ \E i \in DOMAIN audit : audit[i].action = "API_ACCESS"

-----------------------------------------------------------------------------
(* C15: a request during whose authentication the user lookup or the       *)
(* API_ACCESS audit write failed is answered 401 "Authentication failed":  *)
(* it is not answered 500, and no step takes it on to the authorization    *)
(* gate or to its handler.                                                 *)
GateFailed(task) == task.fault \in {"getUser", "API_ACCESS"}

C15_Step(r) ==
  /\ (req[r].pc \in {"auth_user", "auth_audit"} /\ GateFailed(req'[r]))
       => /\ req'[r].pc = "done"
          /\ req'[r].status = 401
          /\ req'[r].message = "Authentication failed"
          /\ UNCHANGED <<users, sessions, audit>>
  /\ GateFailed(req[r]) => (req'[r] = req[r] \/ Free(r))
  /\ GateFailed(req'[r]) => req'[r].pc \notin HandlerPcs

C15_GateFailureIs401 == [][\A r \in Slots : C15_Step(r)]_vars

(* The API_ACCESS write of a request with a valid token of an active user  *)
(* has failed, and the request was answered 401.                           *)
C15_Witness ==
  \E r \in Slots :
    /\ req[r].fault = "API_ACCESS" /\ Answered(r)
    /\ verifyToken(req[r].bearer, req[r].at)
    /\ getUser(req[r].bearer.userId).isActive
    /\ req[r].status = 401

-----------------------------------------------------------------------------
(* C16: when a logout's deactivateSession(t) has run, no session row of t  *)
(* is active and every other row is as before; when t had no active row    *)
(* (no session, or one already revoked) the table is unchanged and the     *)
(* logout goes on; and every logout past the gate is answered 200 "Logged  *)
(* out successfully", whatever refresh token its body carries or lacks.    *)
C16_Step(r) ==
  /\ (req[r].pc = "logout_revoke" /\ req'[r] # req[r])
       => /\ DOMAIN sessions' = DOMAIN sessions
          /\ \A i \in DOMAIN sessions :
               IF sessions[i].token = req[r].refreshToken
               THEN sessions'[i] = [sessions[i] EXCEPT !.isActive = FALSE]
               ELSE sessions'[i] = sessions[i]
          /\ (~\E i \in SessionRows(req[r].refreshToken) : sessions[i].isActive)
               => sessions' = sessions
          /\ req'[r].pc = "logout_audit"
  /\ (req[r].kind = "logout" /\ req[r].pc \in HandlerPcs /\ Answers(r))
       => /\ req'[r].status = 200
          /\ req'[r].message = "Logged out successfully"

C16_RevocationIdempotent == [][\A r \in Slots : C16_Step(r)]_vars

(* A second logout with a refresh token that an earlier logout had already *)
(* revoked has been answered 200, and the token's session is inactive.     *)
C16_Witness ==
  \E r \in Slots :
    /\ req[r].kind = "logout" /\ Answered(r) /\ req[r].afterLogout
    /\ SessionRows(req[r].refreshToken) # {}
    /\ ~getActiveSession(req[r].refreshToken)
    /\ req[r].status = 200

(* A logout whose body carries a string that no session row holds has     *)
(* been answered 200.                                                      *)
C16_WitnessOtherTokens ==
  \E r \in Slots :
    /\ req[r].kind = "logout" /\ Answered(r) /\ req[r].status = 200
    /\ req[r].refreshToken = Garbage

-----------------------------------------------------------------------------
(* C17: every user record whose temporaryPassword flag is set has its      *)
(* mustChangePassword flag set.                                            *)
C17_TemporaryImpliesMustChange ==
  \A i \in DOMAIN users : users[i].temporaryPassword => users[i].mustChangePassword

-----------------------------------------------------------------------------
(* C18: for a user whose password is a temporary one, the audit log shows  *)
(* at most one successful login since the password was last reset, and no  *)
(* authenticated request of that user since that login.                    *)
LastReset(id) ==
  LET resets == {i \in DOMAIN audit :
                   audit[i].action = "PASSWORD_RESET" /\ audit[i].recordId = id}
  IN IF resets = {} THEN 0
     ELSE CHOOSE i \in resets : \A j \in resets : j <= i

LoginsSinceReset(id) ==
  {i \in DOMAIN audit :
     i > LastReset(id) /\ audit[i].action = "LOGIN" /\ audit[i].userId = id}

C18_TemporaryPasswordOneTime ==
  \A id \in DOMAIN users :
    (users[id].temporaryPassword /\ LastReset(id) > 0)
      => /\ Cardinality(LoginsSinceReset(id)) <= 1
         /\ \A i \in LoginsSinceReset(id) :
              ~\E j \in DOMAIN audit :
                 j > i /\ audit[j].action = "API_ACCESS" /\ audit[j].userId = id

-----------------------------------------------------------------------------
(* C19: no two user records have the same email.                           *)
C19_EmailUnique ==
  \A i, j \in DOMAIN users : users[i].email = users[j].email => i = j

(* Two requests carrying the same new email both passed their duplicate    *)
(* check before either wrote; one has stored the email and the other's     *)
(* write was refused.                                                      *)
C19_Witness ==
  /\ \E r \in Slots :
       /\ req[r].kind \in {"create", "update"} /\ req[r].patch.email = NewEmail
       /\ Answered(r) /\ req[r].status \in {200, 201}
  /\ \E r \in Slots :
       /\ req[r].kind \in {"create", "update"} /\ req[r].patch.email = NewEmail
       /\ Answered(r) /\ req[r].status = 500
  /\ Cardinality({i \in DOMAIN users : users[i].email = NewEmail}) = 1

-----------------------------------------------------------------------------
(* C20: a create-user or update-user request that was answered without     *)
(* storing its email, while another user record holds that email, was      *)
(* answered 400 "Email already exists".                                    *)
C20_DuplicateEmailIs400 ==
  \A r \in Slots :
    (/\ req[r].kind \in {"create", "update"}
     /\ Answered(r)
     /\ req[r].status \notin {200, 201}
     /\ \E i \in DOMAIN users :
          /\ users[i].email = req[r].patch.email
          /\ req[r].kind = "update" => i # req[r].target)
      => /\ req[r].status = 400
         /\ req[r].message = "Email already exists"

-----------------------------------------------------------------------------
(* C21: a forgot-password request with a non-empty email is answered 200   *)
(* with the one generic message and no other body, whether or not a user   *)
(* has that email; and no step of a request whose email no user has        *)
(* changes a user record, a session or the audit log.                      *)
GenericAnswer(task) ==
  /\ task.status = 200
  /\ task.message = "If the email exists, a recovery link has been sent"
  /\ task.body = NoTokens

C21_Step(r) ==
  /\ (req[r].kind = "forgot" /\ Answers(r) /\ req[r].email # "")
       => GenericAnswer(req'[r])
  /\ (Free(r) /\ req'[r] # req[r] /\ req'[r].kind = "forgot" /\ req'[r].email # "")
       => req'[r].pc # "done" \/ GenericAnswer(req'[r])
  /\ (req'[r].kind = "forgot" /\ req'[r] # req[r]
        /\ ~\E i \in DOMAIN users : users[i].email = req'[r].email)
       => UNCHANGED <<users, sessions, audit>>

C21_ForgotDoesNotReveal == [][\A r \in Slots : C21_Step(r)]_vars

(* A request for an email no user has has been answered, after a request   *)
(* for the administrator's email had reset the administrator's password.   *)
C21_Witness ==
  /\ \E r \in Slots :
       /\ req[r].kind = "forgot" /\ Answered(r)
       /\ req[r].email # "" /\ UserIdOf(req[r].email) = 0
       /\ req[r].status = 200
  /\ \E i \in DOMAIN audit : audit[i].action = "PASSWORD_RESET"

-----------------------------------------------------------------------------
(* C22: in every step each user record and each session record that exists *)
(* before the step exists after it (same id; same token, owner and         *)
(* expiry), and the audit log after the step is the log before it with     *)
(* rows added at its end.                                                  *)
C22_Step ==
  /\ Len(users') >= Len(users)
  /\ \A i \in DOMAIN users : users'[i].id = users[i].id
  /\ Len(sessions') >= Len(sessions)
  /\ \A i \in DOMAIN sessions :
       /\ sessions'[i].token = sessions[i].token
       /\ sessions'[i].userId = sessions[i].userId
       /\ sessions'[i].expiresAt = sessions[i].expiresAt
  /\ Len(audit') >= Len(audit)
  /\ SubSeq(audit', 1, Len(audit)) = audit

C22_NothingRemoved == [][C22_Step]_vars

(* A created user has been deactivated and a session has been revoked:     *)
(* both records are still stored, and so are the audit rows written on the *)
(* way.                                                                    *)
C22_Witness ==
  /\ \E i \in DOMAIN users : i > 1 /\ ~users[i].isActive
  /\ \E i \in DOMAIN sessions : ~sessions[i].isActive
  /\ \E i \in DOMAIN audit : audit[i].action = "DELETE"
  /\ \E i \in DOMAIN audit : audit[i].action = "LOGOUT"

-----------------------------------------------------------------------------
(* C23: a refresh request presenting a refresh token that an earlier       *)
(* refresh response carried (a token clients hold that has no session row  *)
(* of its own), unexpired and of an active user, is answered 200 with a    *)
(* new token pair.                                                         *)
IssuedByRefresh(token) ==
  /\ token \in held
  /\ token.key = JWT_REFRESH_SECRET
  /\ SessionRows(token) = {}

C23_RefreshedTokenRefreshes ==
  \A r \in Slots :
    (/\ req[r].kind = "refresh" /\ Answered(r)
     /\ IssuedByRefresh(req[r].refreshToken)
     /\ req[r].at < req[r].refreshToken.exp
     /\ getUser(req[r].refreshToken.userId).isActive)
      => /\ req[r].status = 200
         /\ req[r].body # NoTokens

-----------------------------------------------------------------------------
(* C24: no step of a refresh request changes a user record, a session      *)
(* record or the audit log; and a refresh whose token verifies, has an     *)
(* active session and belongs to an active user is answered 200 with a     *)
(* token pair, however often the token was used before.                    *)
C24_Step(r) ==
  /\ (req'[r].kind = "refresh" /\ req'[r] # req[r])
       => UNCHANGED <<users, sessions, audit>>
  /\ (req[r].pc = "refresh_session" /\ req'[r] # req[r]
        /\ \E i \in SessionRows(req[r].refreshToken) : sessions[i].isActive)
       => req'[r].pc = "refresh_user"
  /\ (req[r].pc = "refresh_user" /\ req'[r] # req[r]
        /\ \E i \in DOMAIN users :
             users[i].id = req[r].refreshToken.userId /\ users[i].isActive)
       => /\ req'[r].pc = "done" /\ req'[r].status = 200
          /\ req'[r].body # NoTokens
  /\ (Free(r) /\ req'[r] # req[r] /\ req'[r].kind = "refresh"
        /\ req'[r].refreshToken.key = JWT_REFRESH_SECRET
        /\ now < req'[r].refreshToken.exp)
       => req'[r].pc = "refresh_session"

C24_RefreshDoesNotRotate == [][\A r \in Slots : C24_Step(r)]_vars

(* Within one second a login and three refresh requests, all with the      *)
(* login's refresh token, have been answered, the last with 200: the       *)
(* login's row is the only audit row and its session the only session.     *)
C24_Witness ==
  /\ now = 1
  /\ budget = MaxRevokeRequests - 4
  /\ Len(audit) = 1 /\ Len(sessions) = 1
  /\ \E r \in Slots :
       /\ req[r].kind = "refresh" /\ Answered(r) /\ req[r].status = 200
       /\ getActiveSession(req[r].refreshToken)

-----------------------------------------------------------------------------
(* C25: in a login the session row is stored before the user's last-login  *)
(* timestamp is written, and the timestamp before the LOGIN audit row: a   *)
(* login step that changes a user record finds the login's session stored, *)
(* a login step that writes the audit log finds the timestamp written, and *)
(* a login step answered 500 at session creation belongs to a login that   *)
(* has not written the timestamp (its expiresAt, computed right after the  *)
(* write, is still unset).                                                 *)
C25_Step(r) ==
  /\ (req[r].kind = "login" /\ req'[r] # req[r] /\ users' # users)
       => SessionRows(req[r].tokens.refreshToken) # {}
  /\ (req[r].kind = "login" /\ req'[r] # req[r] /\ audit' # audit)
       => /\ SessionRows(req[r].tokens.refreshToken) # {}
          /\ users[req[r].user.id].lastLogin = req[r].at
  /\ (req[r].pc = "login_session" /\ req'[r] # req[r] /\ req'[r].status = 500)
       => req[r].expiresAt = 0

C25_SessionBeforeLastLogin == [][\A r \in Slots : C25_Step(r)]_vars

-----------------------------------------------------------------------------
(* C26: seeding is idempotent.  When a seeding ends, exactly one user      *)
(* record has the administrator's email; no step of a seeding changes a    *)
(* record that exists; and on a freshly seeded store (the one seeded       *)
(* record, untouched but for its last login, and no session) a login with  *)
(* admin@mecone.com / admin123 is not turned away, and is answered 200     *)
(* with tokens of role ADMINISTRATOR.                                      *)
AdminRows == {i \in DOMAIN users : users[i].email = AdminEmail}

AsSeeded(user) ==
  [user EXCEPT !.lastLogin = 0] = [SeededAdmin EXCEPT !.id = user.id]

FreshlySeeded == Len(users) = 1 /\ AsSeeded(users[1]) /\ sessions = <<>>

SeedLogin(task) ==
  task.kind = "login" /\ task.email = AdminEmail /\ task.password = AdminPassword

C26_Step(r) ==
  /\ (req[r].kind = "seed" /\ Answers(r))
       => Cardinality({i \in DOMAIN users' : users'[i].email = AdminEmail}) = 1
  /\ (req'[r].kind = "seed" /\ req'[r] # req[r])
       => /\ Len(users') >= Len(users)
          /\ \A i \in DOMAIN users : users'[i] = users[i]
  /\ (FreshlySeeded /\ req'[r] # req[r] /\ SeedLogin(req'[r]))
       => req'[r].pc # "done"
  /\ (req[r].pc = "login_audit" /\ req'[r] # req[r] /\ SeedLogin(req[r])
        /\ AsSeeded(req[r].user))
       => /\ req'[r].status = 200
          /\ req'[r].body.accessToken.key = JWT_SECRET
          /\ req'[r].body.accessToken.profile = "ADMINISTRATOR"

C26_SeedingIdempotent == [][\A r \in Slots : C26_Step(r)]_vars

(* A second start found the seeded administrator and left the one record   *)
(* as it was, and a login on that store was answered 200 as ADMINISTRATOR.  *)
C26_Witness ==
  /\ Len(users) = 1 /\ AsSeeded(users[1])
  /\ Len(sessions) = 1
  /\ \E r, q \in Slots :
       /\ req[r].kind = "seed" /\ Answered(r) /\ req[r].message = "exists"
       /\ req[q].kind = "login" /\ Answered(q) /\ req[q].status = 200
       /\ req[q].body.accessToken.profile = "ADMINISTRATOR"

(* Two processes started together: the second insert was rejected by the   *)
(* unique index and one record exists.                                     *)
C26_WitnessConcurrentStarts ==
  /\ Cardinality(AdminRows) = 1
  /\ \E r, q \in Slots :
       /\ req[r].kind = "seed" /\ Answered(r) /\ req[r].message = "created"
       /\ req[q].kind = "seed" /\ Answered(q) /\ req[q].message = "error"

-----------------------------------------------------------------------------
(* C27: a step changes an existing session record only if it is the        *)
(* deactivateSession step of a logout carrying that record's token, and    *)
(* then only its isActive flag, from true to false.  So a refresh is       *)
(* turned away at the session lookup only when its token has no active     *)
(* session record, and at the user lookup only when the user is inactive   *)
(* or missing at that moment: not because of a password reset, and not     *)
(* because the user was inactive earlier.                                  *)
C27_Step ==
  /\ \A i \in DOMAIN sessions :
       sessions'[i] # sessions[i]
         => /\ sessions'[i] = [sessions[i] EXCEPT !.isActive = FALSE]
            /\ \E r \in Slots :
                 /\ req[r].kind = "logout" /\ req[r].pc = "logout_revoke"
                 /\ req'[r] # req[r]
                 /\ req[r].refreshToken = sessions[i].token
  /\ \A r \in Slots :
       (req[r].kind = "refresh" /\ Answers(r) /\ req'[r].status = 401)
         => \/ req[r].pc = "refresh_session" /\ ~getActiveSession(req[r].refreshToken)
            \/ req[r].pc = "refresh_user"
                 /\ ~getUser(req[r].refreshToken.userId).isActive

C27_SessionsChangedOnlyByLogout == [][C27_Step]_vars

WasDeactivated(id) ==
  \E i \in DOMAIN audit : audit[i].action = "DELETE" /\ audit[i].recordId = id

WasReset(id) ==
  \E i \in DOMAIN audit : audit[i].action = "PASSWORD_RESET" /\ audit[i].recordId = id

(* The manager logged in, was deactivated and reactivated, and a refresh   *)
(* with the token of that login is answered 200.                           *)
C27_Witness ==
  /\ WasDeactivated(2) /\ activations > 0
  /\ req["a"].kind = "refresh" /\ Answered("a") /\ req["a"].status = 200
  /\ req["a"].refreshToken.userId = 2
  /\ \E i \in SessionRows(req["a"].refreshToken) : sessions[i].isActive

(* The manager logged in, the manager's password was reset, and a refresh  *)
(* with the token of that login is answered 200.                           *)
C27_WitnessAfterReset ==
  /\ WasReset(2)
  /\ req["a"].kind = "refresh" /\ Answered("a") /\ req["a"].status = 200
  /\ req["a"].refreshToken.userId = 2

-----------------------------------------------------------------------------
(* C28: a login answered 400 or 401 is answered on arrival, at the user    *)
(* lookup or at the password comparison, and neither that step nor any     *)
(* step that brought the login there changes a user record, a session      *)
(* record or the audit log.                                                *)
C28_Step(r) ==
  /\ (req'[r].kind = "login" /\ req'[r] # req[r]
        /\ req'[r].pc \in {"login_user", "login_compare", "login_touch"})
       => UNCHANGED <<users, sessions, audit>>
  /\ (req'[r].kind = "login" /\ req'[r] # req[r] /\ req'[r].pc = "done"
        /\ req'[r].status \in {400, 401})
       => /\ UNCHANGED <<users, sessions, audit>>
          /\ Free(r) \/ req[r].pc \in {"login_user", "login_compare"}

C28_FailedLoginChangesNothing == [][\A r \in Slots : C28_Step(r)]_vars

(* A second after a successful login, a login of the same user with a      *)
(* wrong password has been answered 401: the store has the one session,    *)
(* the one audit row and the last login of the first.                      *)
C28_Witness ==
  /\ now = 2 /\ budget = MaxAuditRequests - 2
  /\ Len(sessions) = 1 /\ Len(audit) = 1 /\ users[1].lastLogin = 1
  /\ req["a"].kind = "login" /\ Answered("a") /\ req["a"].status = 401
  /\ req["a"].email = AdminEmail /\ req["a"].at = 2

-----------------------------------------------------------------------------
(* C29: the deactivateSession step of a logout changes at most one session *)
(* record, the one whose token is the refresh token in the request's body, *)
(* whoever owns it, and no user record; and the authentication gate looks  *)
(* at no session: a request whose access token verifies at the clock       *)
(* reading goes on to the user lookup, and one whose user is active gets   *)
(* that token's identity, whatever logouts have completed.                 *)
C29_Step(r) ==
  /\ (req[r].pc = "logout_revoke" /\ req'[r] # req[r])
       => /\ Len(sessions') = Len(sessions)
          /\ \A i \in DOMAIN sessions :
               sessions'[i] # sessions[i] => sessions[i].token = req[r].refreshToken
          /\ Cardinality({i \in DOMAIN sessions : sessions'[i] # sessions[i]}) <= 1
          /\ UNCHANGED users
  /\ (Free(r) /\ req'[r] # req[r] /\ req'[r].kind \in AuthedKinds
        /\ verifyToken(req'[r].bearer, now))
       => req'[r].pc = "auth_user"
  /\ (req[r].pc = "auth_user" /\ req'[r] # req[r]
        /\ getUser(req[r].bearer.userId).isActive)
       => /\ req'[r].pc = "auth_audit"
          /\ req'[r].identity.id = req[r].bearer.userId

C29_LogoutRevokesOnlyRefresh == [][\A r \in Slots : C29_Step(r)]_vars

(* A second after the login, and after a logout that deactivated the       *)
(* login's session, the login's access token has passed the gate:          *)
(* GET /api/auth/me is answered 200.                                       *)
C29_Witness ==
  /\ now = 2
  /\ Len(sessions) = 1 /\ ~sessions[1].isActive
  /\ sessions[1].token \in loggedOut
  /\ req["a"].kind = "me" /\ Answered("a") /\ req["a"].status = 200
  /\ req["a"].bearer.iat = 1 /\ req["a"].bearer.userId = sessions[1].userId

(* The administrator's logout carried the manager's refresh token: the     *)
(* manager's session is inactive and the administrator's is not.           *)
C29_WitnessOtherUsersSession ==
  /\ req["a"].kind = "logout" /\ Answered("a") /\ req["a"].status = 200
  /\ req["a"].bearer.userId = 1 /\ req["a"].refreshToken.userId = 2
  /\ \E i \in SessionRows(req["a"].refreshToken) : ~sessions[i].isActive
  /\ \E i \in DOMAIN sessions : sessions[i].userId = 1 /\ sessions[i].isActive

-----------------------------------------------------------------------------
(* C30: the identity the gate attaches is the access token's claims, and   *)
(* authorize answers by that identity's role, whatever the user record     *)
(* says; the tokens a refresh issues carry the email and role of the user  *)
(* record as stored at that moment, and the tokens a login issues those of *)
(* the record the login read.                                              *)
Claims(token) == [id |-> token.userId, email |-> token.email, profile |-> token.profile]

C30_Step(r) ==
  /\ (req[r].pc = "auth_user" /\ req'[r].pc = "auth_audit")
       => req'[r].identity = Claims(req[r].bearer)
  /\ (req[r].pc = "authorize" /\ req'[r] # req[r])
       => IF req[r].bearer.profile \in req[r].allow
          THEN req'[r].pc = HandlerEntry(req[r])
          ELSE req'[r].pc = "done" /\ req'[r].status = 403
  /\ (req[r].pc = "refresh_user" /\ req'[r] # req[r] /\ req'[r].status = 200)
       => LET user == users[req[r].refreshToken.userId]
          IN /\ Claims(req'[r].body.accessToken) = Claims(req'[r].body.refreshToken)
             /\ Claims(req'[r].body.accessToken) =
                  [id |-> user.id, email |-> user.email, profile |-> user.profile]
  /\ (req[r].pc = "login_compare" /\ req'[r].pc = "login_touch")
       => /\ Claims(req'[r].tokens.accessToken) = Claims(req'[r].tokens.refreshToken)
          /\ Claims(req'[r].tokens.accessToken) =
               [id |-> req[r].user.id, email |-> req[r].user.email,
                profile |-> req[r].user.profile]

C30_RoleFromTokenUntilReissued == [][\A r \in Slots : C30_Step(r)]_vars

(* The administrator's record says COORDINATOR, a refresh has issued       *)
(* tokens that say so, and GET /api/users, which a coordinator may not     *)
(* call, has been answered 200 to the access token issued before.          *)
C30_Witness ==
  /\ users[1].profile = "COORDINATOR"
  /\ \E t \in HeldAccess : t.userId = 1 /\ t.profile = "COORDINATOR"
  /\ req["a"].kind = "users" /\ Answered("a") /\ req["a"].status = 200
  /\ req["a"].bearer.profile = "ADMINISTRATOR"

(* The access token issued after the change is answered 403.               *)
C30_WitnessNewRoleRefused ==
  /\ users[1].profile = "COORDINATOR"
  /\ req["a"].kind = "users" /\ Answered("a") /\ req["a"].status = 403
  /\ req["a"].bearer.profile = "COORDINATOR"

====
